---- MODULE Spec2Model ----
(***************************************************************************)
(* Prefetch-and-cache core of faststack: the byte-budgeted LRU cache       *)
(* (imaging/cache.py over cachetools.LRUCache), the Prefetcher             *)
(* (imaging/prefetch.py) with its thread pool, and the AppController       *)
(* handlers (app.py) that move the display generation.                     *)
(***************************************************************************)
EXTENDS Integers, Sequences, FiniteSets, TLC

VARIABLES
    cache,   \* AppController.image_cache : ByteLRUCache
    pf,      \* AppController.prefetcher  : Prefetcher (with its executor's futures)
    app,     \* AppController display state
    thr,     \* per-thread program counters and locals of the interleaved specifications
    hist,    \* history: keys ordered by their last touch (get hit / put)
    last     \* history: the operation that produced this state and what it returned

vars == <<cache, pf, app, thr, hist, last>>

----------------------------------------------------------------------------
(* Bounds of the model *)

MaxItemBytes == 3     \* largest value size offered to the cache
MaxBudget == 4        \* largest byte budget offered to resize
NumKeys == 3          \* cache keys offered to the cache in SpecCache

(* Program constants *)

InitialMaxBytes == 3      \* config cache_size_gb = 1.5 (3 units of 0.5 GB)
MinCacheSize == 1         \* set_cache_size: lower clamp (0.5 GB = 1 unit)
MaxCacheSize == 32        \* set_cache_size: upper clamp (16 GB = 32 units)

----------------------------------------------------------------------------
(* Sequence helpers *)

RECURSIVE SeqRemove(_, _)
SeqRemove(s, x) ==
    IF s = <<>> THEN <<>>
    ELSE IF Head(s) = x THEN SeqRemove(Tail(s), x)
    ELSE <<Head(s)>> \o SeqRemove(Tail(s), x)

SeqRange(s) == {s[j] : j \in 1..Len(s)}

PosIn(s, x) == CHOOSE j \in 1..Len(s) : s[j] = x

RECURSIVE SumSizes(_, _)
SumSizes(f, S) ==
    IF S = {} THEN 0
    ELSE LET k == CHOOSE x \in S : TRUE IN f[k] + SumSizes(f, S \ {k})

Restrict(f, S) == [x \in S |-> f[x]]

----------------------------------------------------------------------------
(* ByteLRUCache: a cachetools.LRUCache with maxsize = max_bytes and        *)
(* getsizeof = size_of.  data: key -> value, size: key -> bytes (the       *)
(* cache's own size table), order: keys from least to most recently used.  *)

build_cache_key(image_path, display_generation) == <<image_path, display_generation>>

get_decoded_image_size(item) == item.nbytes

NewCache(max_bytes) ==
    [data |-> <<>>, size |-> <<>>, order |-> <<>>, currsize |-> 0, maxsize |-> max_bytes]

Contains(c, key) == key \in DOMAIN c.data

\* LRUCache.__getitem__ on a resident key: the key moves to the MRU end.
LRUTouch(c, key) == [c EXCEPT !.order = Append(SeqRemove(@, key), key)]

LRUVictim_mru(c) == c.order[Len(c.order)]

\* LRUCache.popitem: the victim is the first key of the LRU order.
LRUVictim(c) == Head(c.order)

popitem_keepsize(c) ==
    LET key == LRUVictim(c) IN
    [c EXCEPT !.order = SeqRemove(@, key),
              !.data = Restrict(@, DOMAIN @ \ {key}),
              !.size = Restrict(@, DOMAIN @ \ {key})]

\* ByteLRUCache.popitem: remove the victim and its bytes; on_evict fires once.
popitem(c) ==
    LET key == LRUVictim(c) IN
    [c EXCEPT !.order = SeqRemove(@, key),
              !.data = Restrict(@, DOMAIN @ \ {key}),
              !.size = Restrict(@, DOMAIN @ \ {key}),
              !.currsize = @ - c.size[key]]

RECURSIVE EvictFor_silent(_, _)
EvictFor_silent(r, size) ==
    IF r.c.currsize + size > r.c.maxsize
    THEN IF r.c.order = <<>>
         THEN [r EXCEPT !.raised = "KeyError"]
         ELSE EvictFor_silent([r EXCEPT !.c = popitem(r.c)], size)
    ELSE r

\* Cache.__setitem__ eviction loop: while currsize + size > maxsize: popitem().
\* r = [c, evicted, raised]; popitem on an empty cache raises KeyError.
\* evicted logs the calls of ByteLRUCache.popitem, each of which calls
\* on_evict once, with the key it removed.
RECURSIVE EvictFor(_, _)
EvictFor(r, size) ==
    IF r.c.currsize + size > r.c.maxsize
    THEN IF r.c.order = <<>>
         THEN [r EXCEPT !.raised = "KeyError"]
         ELSE EvictFor([c |-> popitem(r.c),
                        evicted |-> Append(r.evicted, LRUVictim(r.c)),
                        raised |-> r.raised], size)
    ELSE r

\* The eviction loop runs for a new key or for a value that grows.
NeedsRoom(c, key, size) == ~Contains(c, key) \/ c.size[key] < size

\* ByteLRUCache.__setitem__ -> LRUCache.__setitem__ -> Cache.__setitem__.
CachePut(c, key, value) ==
    LET size == get_decoded_image_size(value)
        r0 == [c |-> c, evicted |-> <<>>, raised |-> "none"]
    IN  IF size > c.maxsize
        THEN [r0 EXCEPT !.raised = "ValueError"]
        ELSE LET r1 == IF NeedsRoom(c, key, size) THEN EvictFor(r0, size) ELSE r0
                 c1 == r1.c
                 diffsize == IF Contains(c1, key) THEN size - c1.size[key] ELSE size
                 c2 == [c1 EXCEPT
                          !.data = [k \in DOMAIN c1.data \cup {key} |->
                                       IF k = key THEN value ELSE c1.data[k]],
                          !.size = [k \in DOMAIN c1.size \cup {key} |->
                                       IF k = key THEN size ELSE c1.size[k]],
                          !.currsize = @ + diffsize]
             IN  IF r1.raised # "none" THEN r1
                 ELSE [r1 EXCEPT !.c = LRUTouch(c2, key)]

\* `key in cache` followed by cache[key], as every reader in app.py does.
CacheGet(c, key) == IF Contains(c, key) THEN LRUTouch(c, key) ELSE c

\* ByteLRUCache.max_bytes setter: the budget later puts are checked against.
SetMaxBytes(c, new_max_bytes) == [c EXCEPT !.maxsize = new_max_bytes]

ShrinkTo_once(r, new_max_bytes) ==
    IF r.c.currsize > new_max_bytes /\ r.c.order # <<>>
    THEN [r EXCEPT !.c = popitem(r.c), !.evicted = Append(@, LRUVictim(r.c))]
    ELSE r

\* set_cache_size eviction loop: while currsize > new_max and len > 0: popitem().
RECURSIVE ShrinkTo(_, _)
ShrinkTo(r, new_max_bytes) ==
    IF r.c.currsize > new_max_bytes /\ r.c.order # <<>>
    THEN ShrinkTo([r EXCEPT !.c = popitem(r.c),
                            !.evicted = Append(@, LRUVictim(r.c))], new_max_bytes)
    ELSE r

ClampCacheSize(size) ==
    IF size < MinCacheSize THEN MinCacheSize
    ELSE IF size > MaxCacheSize THEN MaxCacheSize ELSE size

set_cache_size_unset(c, size) ==
    LET new_max_bytes == ClampCacheSize(size)
        r0 == [c |-> c, evicted |-> <<>>, raised |-> "none"]
    IN  IF c.maxsize = new_max_bytes THEN r0 ELSE ShrinkTo(r0, new_max_bytes)

\* AppController.set_cache_size.
set_cache_size(c, size) ==
    LET new_max_bytes == ClampCacheSize(size)
        r0 == [c |-> c, evicted |-> <<>>, raised |-> "none"]
    IN  IF c.maxsize = new_max_bytes THEN r0
        ELSE ShrinkTo([r0 EXCEPT !.c = SetMaxBytes(c, new_max_bytes)], new_max_bytes)

\* ByteLRUCache inherits MutableMapping.clear: popitem() until it raises KeyError.
RECURSIVE ClearLoop(_)
ClearLoop(r) ==
    IF r.c.order = <<>> THEN r
    ELSE ClearLoop([r EXCEPT !.c = popitem(r.c),
                             !.evicted = Append(@, LRUVictim(r.c))])

\* the number of on_evict calls an operation made
on_evict_calls(l) == Len(l.evicted)

\* image_cache.clear(): every entry is dropped.
CacheClear(c) == [c EXCEPT !.data = <<>>, !.size = <<>>, !.order = <<>>, !.currsize = 0]

----------------------------------------------------------------------------
(* History bookkeeping *)

\* get_decoded_image returned None
NoImage == [nbytes |-> 0, src |-> -1, width |-> -1, height |-> -1]

NoLast ==
    [op |-> "init", key |-> <<>>, index |-> -1, priority |-> FALSE, ret |-> 0,
     gen |-> -1, chk_gen |-> -1,
     dispatched |-> 0, cancel_called |-> {}, submitted |-> <<>>,
     evicted |-> <<>>, raised |-> "none",
     is_navigation |-> FALSE, start |-> -1, end |-> -1,
     image |-> NoImage, fallback |-> FALSE, req_key |-> <<>>, path |-> "none"]

Touched(h, key) == Append(SeqRemove(h, key), key)

----------------------------------------------------------------------------
(* SpecCache: put / get / resize / clear on the cache, one at a time *)

\* keys (path 1, gen 0), (path 1, gen 1), (path 2, gen 0), (path 2, gen 1), ...
CacheKeys == {build_cache_key((j + 1) \div 2, (j + 1) % 2) : j \in 1..NumKeys}

InitCommon ==
    /\ cache = NewCache(InitialMaxBytes)
    /\ hist = <<>>
    /\ last = NoLast

InitCache ==
    /\ InitCommon
    /\ pf = 0 /\ app = 0 /\ thr = 0

Put(key, nbytes) ==
    LET r == CachePut(cache, key, [nbytes |-> nbytes]) IN
    /\ cache' = IF r.raised = "none" THEN r.c ELSE cache
    /\ hist' = IF r.raised = "none" THEN Touched(hist, key) ELSE hist
    /\ last' = [NoLast EXCEPT !.op = "put", !.key = key,
                              !.evicted = r.evicted, !.raised = r.raised]
    /\ UNCHANGED <<pf, app, thr>>

Get(key) ==
    /\ cache' = CacheGet(cache, key)
    /\ hist' = IF Contains(cache, key) THEN Touched(hist, key) ELSE hist
    /\ last' = [NoLast EXCEPT !.op = "get", !.key = key,
                              !.ret = IF Contains(cache, key) THEN 1 ELSE 0]
    /\ UNCHANGED <<pf, app, thr>>

Resize(size) ==
    LET r == set_cache_size(cache, size) IN
    /\ cache' = r.c
    /\ last' = [NoLast EXCEPT !.op = "resize", !.index = ClampCacheSize(size),
                              !.evicted = r.evicted]
    /\ UNCHANGED <<pf, app, thr, hist>>

Clear ==
    LET r == ClearLoop([c |-> cache, evicted |-> <<>>, raised |-> "none"]) IN
    /\ cache' = r.c
    /\ last' = [NoLast EXCEPT !.op = "clear", !.evicted = r.evicted]
    /\ UNCHANGED <<pf, app, thr, hist>>

NextCache ==
    \/ \E key \in CacheKeys, nbytes \in 1..MaxItemBytes : Put(key, nbytes)
    \/ \E key \in CacheKeys : Get(key)
    \/ \E size \in 0..MaxBudget : Resize(size)
    \/ Clear

SpecCache == InitCache /\ [][NextCache]_vars

----------------------------------------------------------------------------
(* Prefetcher (imaging/prefetch.py).  pf.tasks is the executor's list of   *)
(* submitted work items, oldest first; a task id is its position.  A       *)
(* task's state is its Future's state, refined while it runs by the line   *)
(* of _decode_and_cache its worker is about to execute.                    *)

MaxTasks == 2         \* tasks dispatched to the pool in one behaviour
MaxGen == 1           \* largest value either generation counter reaches
NumImages == 4        \* length of the full source list
MaxNavCount == 2      \* navigations counted in one behaviour

max_workers == 2            \* min((os.cpu_count() or 1) * 2, 4) on one core
initial_radius == 2         \* Prefetcher._initial_radius
config_prefetch_radius == 4 \* config core.prefetch_radius
safe_radius == 2            \* submit_task: safe_radius
bias_behind_tenths == 3     \* 1 - _direction_bias (0.7), in tenths

NoDirection == 0      \* direction=None
NoResult == <<>>      \* _decode_and_cache returned None

Max(a, b) == IF a >= b THEN a ELSE b
Min(a, b) == IF a <= b THEN a ELSE b
Abs(a) == IF a >= 0 THEN a ELSE 0 - a

\* The source lists set_image_files swaps between: all images, or a filtered list.
FullList == [j \in 1..NumImages |-> j]
FilteredList == [j \in 1..(NumImages - 2) |-> j + 1]
SourceLists == {FullList, FilteredList}

DisplaySizes == {<<1, 1>>}

RunningStates == {"l304", "l503", "l515", "l517"}

NewPrefetcher(image_files) ==
    [image_files |-> image_files, futures |-> <<>>, generation |-> 0,
     scheduled |-> <<>>, navigation_count |-> 0, radius_expanded |-> FALSE,
     last_navigation_direction |-> 1, prefetch_radius |-> config_prefetch_radius,
     tasks |-> <<>>]

\* AppController.get_display_info
get_display_info(a) ==
    IF a.is_zoomed THEN <<0, 0, a.display_generation>>
    ELSE <<a.display_width, a.display_height, a.display_generation>>

FutureDone_cancelled(p, t) == p.tasks[t].state = "CANCELLED"

\* Future.done()
FutureDone(p, t) == p.tasks[t].state \in {"FINISHED", "CANCELLED"}

\* Future.cancel() returns True for a pending or already cancelled future.
CancelSucceeds(p, t) == p.tasks[t].state \in {"PENDING", "CANCELLED"}

\* A future that is done keeps only its state and result; the work item with
\* the call's arguments is released.
DoneFuture(state, result) ==
    [index |-> -1, generation |-> -1, path |-> -1,
     display_width |-> -1, display_height |-> -1, display_generation |-> -1,
     state |-> state, result |-> result, chk_dgen |-> -1]

\* Future.cancel(): a pending future becomes cancelled; others are left alone.
FutureCancel(p, t) ==
    IF p.tasks[t].state = "PENDING"
    THEN [p EXCEPT !.tasks[t] = DoneFuture("CANCELLED", NoResult)] ELSE p

CancelEach_none(p, ts) == p

RECURSIVE CancelEach(_, _)
CancelEach(p, ts) ==
    IF ts = {} THEN p
    ELSE LET t == CHOOSE x \in ts : TRUE IN CancelEach(FutureCancel(p, t), ts \ {t})

cancel_all_resets(p) ==
    LET p1 == [p EXCEPT !.generation = @ + 1, !.navigation_count = 0,
                        !.radius_expanded = FALSE]
        p2 == CancelEach(p1, {p1.futures[i] : i \in DOMAIN p1.futures})
    IN  [p2 EXCEPT !.futures = <<>>, !.scheduled = <<>>]

\* Prefetcher.cancel_all
cancel_all(p) ==
    LET p1 == [p EXCEPT !.generation = @ + 1]
        p2 == CancelEach(p1, {p1.futures[i] : i \in DOMAIN p1.futures})
    IN  [p2 EXCEPT !.futures = <<>>, !.scheduled = <<>>]

\* Prefetcher.set_image_files
set_image_files(p, image_files) ==
    IF p.image_files # image_files
    THEN cancel_all([p EXCEPT !.image_files = image_files])
    ELSE p

AlreadySubmitted_never(p, index) == FALSE

\* submit_task: `index in self.futures and not self.futures[index].done()`
AlreadySubmitted(p, index) ==
    index \in DOMAIN p.futures /\ ~FutureDone(p, p.futures[index])

FarFrom_all(task_index, index) == task_index # index

\* submit_task: the tasks a priority submit may cancel
FarFrom(task_index, index) ==
    task_index # index /\ Abs(task_index - index) > safe_radius

Dispatch_bump(p, dinfo, index, generation) ==
    [p EXCEPT !.generation = @ + 1,
              !.tasks = Append(@, [index |-> index, generation |-> generation,
                                   path |-> p.image_files[index + 1],
                                   display_width |-> dinfo[1], display_height |-> dinfo[2],
                                   display_generation |-> dinfo[3],
                                   state |-> "PENDING", result |-> NoResult, chk_dgen |-> -1]),
              !.futures = [i \in DOMAIN @ \cup {index} |->
                              IF i = index THEN Len(p.tasks) + 1 ELSE @[i]]]

\* executor.submit(self._decode_and_cache, image_file, index, generation, w, h, display_generation)
Dispatch(p, dinfo, index, generation) ==
    LET task == [index |-> index, generation |-> generation,
                 path |-> p.image_files[index + 1],
                 display_width |-> dinfo[1], display_height |-> dinfo[2],
                 display_generation |-> dinfo[3],
                 state |-> "PENDING", result |-> NoResult, chk_dgen |-> -1]
        t == Len(p.tasks) + 1
    IN  [p EXCEPT !.tasks = Append(@, task),
                  !.futures = [i \in DOMAIN @ \cup {index} |-> IF i = index THEN t ELSE @[i]]]

\* Prefetcher.submit_task; r = [p, ret, dispatched, cancel_called]
submit_task(p, dinfo, index, generation, priority) ==
    IF AlreadySubmitted(p, index)
    THEN [p |-> p, ret |-> p.futures[index], dispatched |-> 0, cancel_called |-> {}]
    ELSE LET far == IF priority
                    THEN {i \in DOMAIN p.futures :
                             FarFrom(i, index) /\ ~FutureDone(p, p.futures[i])}
                    ELSE {}
             called == {p.futures[i] : i \in far}
             gone == {i \in far : CancelSucceeds(p, p.futures[i])}
             p1 == CancelEach(p, called)
             p2 == [p1 EXCEPT !.futures = Restrict(@, DOMAIN @ \ gone)]
             p3 == Dispatch(p2, dinfo, index, generation)
         IN  [p |-> p3, ret |-> Len(p3.tasks), dispatched |-> Len(p3.tasks),
              cancel_called |-> called]

\* update_prefetch: the asymmetric split of the effective radius
EffectiveRadius_configured(p) == p.prefetch_radius

EffectiveRadius(p) == IF ~p.radius_expanded THEN initial_radius ELSE p.prefetch_radius

SmallSide_nofloor(effective_radius) == (effective_radius * bias_behind_tenths) \div 10

SmallSide(effective_radius) == Max(1, (effective_radius * bias_behind_tenths) \div 10)

Behind(p) ==
    IF p.last_navigation_direction > 0 THEN SmallSide(EffectiveRadius(p))
    ELSE EffectiveRadius(p) - SmallSide(EffectiveRadius(p)) + 1

Ahead_short(p) ==
    IF p.last_navigation_direction > 0
    THEN EffectiveRadius(p) - SmallSide(EffectiveRadius(p))
    ELSE SmallSide(EffectiveRadius(p))

Ahead(p) ==
    IF p.last_navigation_direction > 0
    THEN EffectiveRadius(p) - SmallSide(EffectiveRadius(p)) + 1
    ELSE SmallSide(EffectiveRadius(p))

WindowStart(p, current_index) == Max(0, current_index - Behind(p))
WindowEnd_unclamped(p, current_index) == current_index + Ahead(p) + 1
WindowEnd(p, current_index) == Min(Len(p.image_files), current_index + Ahead(p) + 1)

\* range(a, b) and range(a, b, -1) as sequences
RangeUp(a, b) == [j \in 1..Max(0, b - a) |-> a + j - 1]
RangeDown(a, b) == [j \in 1..Max(0, a - b) |-> a - j + 1]

PriorityOrder_forward(p, current_index) ==
    <<current_index>>
        \o RangeUp(current_index + 1, WindowEnd(p, current_index))
        \o RangeDown(current_index - 1, WindowStart(p, current_index) - 1)

PriorityOrder(p, current_index) ==
    LET start == WindowStart(p, current_index)
        end == WindowEnd(p, current_index)
        up == RangeUp(current_index + 1, end)
        down == RangeDown(current_index - 1, start - 1)
    IN  IF p.last_navigation_direction > 0
        THEN <<current_index>> \o up \o down
        ELSE <<current_index>> \o down \o up

ScheduledNow(p) ==
    IF p.generation \in DOMAIN p.scheduled THEN p.scheduled[p.generation] ELSE {}

RECURSIVE SubmitLoop_norecord(_, _, _)
SubmitLoop_norecord(r, dinfo, order) ==
    IF order = <<>> THEN r
    ELSE LET i == Head(order)
             p == r.p
         IN  IF i < 0 \/ i >= Len(p.image_files)
             THEN SubmitLoop_norecord(r, dinfo, Tail(order))
             ELSE IF i \notin ScheduledNow(p) /\ i \notin DOMAIN p.futures
             THEN LET s == submit_task(p, dinfo, i, p.generation, FALSE)
                  IN  SubmitLoop_norecord([p |-> s.p, submitted |-> Append(r.submitted, i)],
                                          dinfo, Tail(order))
             ELSE SubmitLoop_norecord(r, dinfo, Tail(order))

RECURSIVE SubmitLoop_always(_, _, _)
SubmitLoop_always(r, dinfo, order) ==
    IF order = <<>> THEN r
    ELSE LET i == Head(order)
             p == r.p
         IN  IF i < 0 \/ i >= Len(p.image_files)
             THEN SubmitLoop_always(r, dinfo, Tail(order))
             ELSE LET s == submit_task(p, dinfo, i, p.generation, FALSE)
                      p1 == [s.p EXCEPT !.scheduled[p.generation] = @ \cup {i}]
                  IN  SubmitLoop_always([p |-> p1, submitted |-> Append(r.submitted, i)],
                                        dinfo, Tail(order))

\* update_prefetch: the submit loop over priority_order; r = [p, submitted]
RECURSIVE SubmitLoop(_, _, _)
SubmitLoop(r, dinfo, order) ==
    IF order = <<>> THEN r
    ELSE LET i == Head(order)
             p == r.p
         IN  IF i < 0 \/ i >= Len(p.image_files)
             THEN SubmitLoop(r, dinfo, Tail(order))
             ELSE IF i \notin ScheduledNow(p) /\ i \notin DOMAIN p.futures
             THEN LET s == submit_task(p, dinfo, i, p.generation, FALSE)
                      p1 == [s.p EXCEPT !.scheduled[p.generation] = @ \cup {i}]
                  IN  SubmitLoop([p |-> p1, submitted |-> Append(r.submitted, i)],
                                 dinfo, Tail(order))
             ELSE SubmitLoop(r, dinfo, Tail(order))

\* Prefetcher.update_prefetch; r = [p, submitted]
update_prefetch(p, dinfo, current_index, is_navigation, direction) ==
    LET \* drop the scheduled sets of older generations
        p1 == [p EXCEPT !.scheduled =
                  Restrict(@, {g \in DOMAIN @ : ~(g < p.generation)})]
        p2 == IF direction # NoDirection
              THEN [p1 EXCEPT !.last_navigation_direction = direction] ELSE p1
        p3 == IF is_navigation
              THEN [p2 EXCEPT !.navigation_count = @ + 1,
                              !.radius_expanded = @ \/ (p2.navigation_count + 1 >= 2)]
              ELSE p2
        start == WindowStart(p3, current_index)
        end == WindowEnd(p3, current_index)
        \* scheduled = self._scheduled.setdefault(self.generation, set())
        p4 == [p3 EXCEPT !.scheduled =
                  [g \in DOMAIN @ \cup {p3.generation} |->
                      IF g \in DOMAIN @ THEN @[g] ELSE {}]]
        outside == {i \in DOMAIN p4.futures : i < start \/ i >= end}
        stale_keys == {i \in outside : CancelSucceeds(p4, p4.futures[i])}
        p5 == CancelEach(p4, {p4.futures[i] : i \in outside})
        p6 == [p5 EXCEPT !.futures = Restrict(@, DOMAIN @ \ stale_keys),
                         !.scheduled[p5.generation] = @ \ stale_keys]
    IN  SubmitLoop([p |-> p6, submitted |-> <<>>], dinfo, PriorityOrder(p6, current_index))

----------------------------------------------------------------------------
(* Spec: the coordinator's calls, one at a time, interleaved with the      *)
(* steps of the pool's workers.                                            *)

NewApp ==
    [display_width |-> 0, display_height |-> 0, display_generation |-> 0,
     is_zoomed |-> FALSE, current_index |-> 0]

\* Spec starts with the filter applied, SpecSched with the full list.
Init ==
    /\ InitCommon
    /\ pf = NewPrefetcher(FilteredList)
    /\ app = NewApp
    /\ thr = 0

InitSched ==
    /\ InitCommon
    /\ pf = NewPrefetcher(FullList)
    /\ app = NewApp
    /\ thr = 0

ValidIndices == 0..(Len(pf.image_files) - 1)

\* navigation (next_image / prev_image / jump_to_image) -> update_prefetch
Navigate(index, direction) ==
    LET r == update_prefetch(pf, get_display_info(app), index, TRUE, direction) IN
    /\ pf.navigation_count < MaxNavCount
    /\ Len(r.p.tasks) <= MaxTasks
    /\ pf' = r.p
    /\ app' = [app EXCEPT !.current_index = index]
    /\ last' = NoLast
    /\ UNCHANGED <<cache, thr, hist>>

\* update_prefetch(self.current_index)
UpdatePrefetch ==
    LET r == update_prefetch(pf, get_display_info(app), app.current_index,
                             FALSE, NoDirection) IN
    /\ Len(r.p.tasks) <= MaxTasks
    /\ pf' = r.p
    /\ last' = NoLast
    /\ UNCHANGED <<cache, app, thr, hist>>

\* submit_task(index, self.prefetcher.generation, priority)
SubmitTask(index, priority) ==
    LET r == submit_task(pf, get_display_info(app), index, pf.generation, priority) IN
    /\ Len(r.p.tasks) <= MaxTasks
    /\ pf' = r.p
    /\ last' = [NoLast EXCEPT !.op = "submit_task", !.index = index,
                              !.priority = priority, !.ret = r.ret,
                              !.dispatched = r.dispatched,
                              !.cancel_called = r.cancel_called]
    /\ UNCHANGED <<cache, app, thr, hist>>

CancelAll ==
    /\ pf.generation < MaxGen
    /\ pf' = cancel_all(pf)
    /\ last' = NoLast
    /\ UNCHANGED <<cache, app, thr, hist>>

\* _apply_filter_to_cached_list -> set_image_files; the caller clamps current_index
SetImageFiles(image_files) ==
    /\ pf.image_files # image_files
    /\ pf.generation < MaxGen
    /\ pf' = set_image_files(pf, image_files)
    /\ app' = [app EXCEPT !.current_index = Min(@, Max(0, Len(image_files) - 1))]
    /\ last' = NoLast
    /\ UNCHANGED <<cache, thr, hist>>

\* AppController._handle_resize (pending_prefetch_index, when set, is current_index)
HandleResize(size) ==
    LET a1 == [app EXCEPT !.display_width = size[1], !.display_height = size[2],
                          !.display_generation = @ + 1]
        r == update_prefetch(cancel_all(pf), get_display_info(a1), a1.current_index,
                             FALSE, NoDirection)
    IN
    /\ pf.generation < MaxGen /\ app.display_generation < MaxGen
    /\ Len(r.p.tasks) <= MaxTasks
    /\ app' = a1
    /\ pf' = r.p
    /\ last' = NoLast
    /\ UNCHANGED <<cache, thr, hist>>

\* AppController.set_zoomed
SetZoomed(zoomed) ==
    /\ app.display_generation < MaxGen
    /\ app' = [app EXCEPT !.is_zoomed = zoomed, !.display_generation = @ + 1]
    /\ last' = NoLast
    /\ UNCHANGED <<cache, pf, thr, hist>>

\* AppController.set_color_mode: clear, cancel_all, bump, update_prefetch
SetColorMode ==
    LET a1 == [app EXCEPT !.display_generation = @ + 1]
        r == update_prefetch(cancel_all(pf), get_display_info(a1), a1.current_index,
                             FALSE, NoDirection)
    IN
    /\ pf.generation < MaxGen /\ app.display_generation < MaxGen
    /\ Len(r.p.tasks) <= MaxTasks
    /\ cache' = CacheClear(cache)
    /\ app' = a1
    /\ pf' = r.p
    /\ last' = NoLast
    /\ UNCHANGED <<thr, hist>>

(* Workers *)

Running == {t \in DOMAIN pf.tasks : pf.tasks[t].state \in RunningStates}
Pending == {t \in DOMAIN pf.tasks : pf.tasks[t].state = "PENDING"}

Finish(t, result) == [pf EXCEPT !.tasks[t] = DoneFuture("FINISHED", result)]

\* a free worker takes the oldest pending work item
WorkerStart(t) ==
    /\ t \in Pending /\ \A u \in Pending : t <= u
    /\ Cardinality(Running) < max_workers
    /\ pf' = [pf EXCEPT !.tasks[t].state = "l304"]
    /\ last' = NoLast
    /\ UNCHANGED <<cache, app, thr, hist>>

StaleNow_never(t) == FALSE

\* `generation != self.generation`
StaleNow(t) == pf.tasks[t].generation # pf.generation

WorkerDecode_forgets(t, ok) ==
    /\ t \in DOMAIN pf.tasks /\ pf.tasks[t].state = "l304"
    /\ pf' = IF StaleNow(t) \/ ~ok
             THEN [Finish(t, NoResult) EXCEPT
                      !.futures = Restrict(@, {i \in DOMAIN @ : @[i] # t})]
             ELSE [pf EXCEPT !.tasks[t].state = "l503"]
    /\ last' = NoLast
    /\ UNCHANGED <<cache, app, thr, hist>>

\* line 304 early check, then the decode (which fails or yields a buffer)
WorkerDecode(t, ok) ==
    /\ t \in DOMAIN pf.tasks /\ pf.tasks[t].state = "l304"
    /\ pf' = IF StaleNow(t) \/ ~ok THEN Finish(t, NoResult)
             ELSE [pf EXCEPT !.tasks[t].state = "l503"]
    /\ last' = NoLast
    /\ UNCHANGED <<cache, app, thr, hist>>

\* line 503: re-check generation before caching
WorkerRecheck(t) ==
    /\ t \in DOMAIN pf.tasks /\ pf.tasks[t].state = "l503"
    /\ pf' = IF StaleNow(t) THEN Finish(t, NoResult)
             ELSE [pf EXCEPT !.tasks[t].state = "l515",
                             !.tasks[t].chk_dgen = app.display_generation]
    /\ last' = [NoLast EXCEPT !.op = "worker_recheck", !.ret = t,
                              !.gen = pf.tasks[t].generation,
                              !.chk_gen = pf.generation]
    /\ UNCHANGED <<cache, app, thr, hist>>

\* the decoded buffer: full resolution when no display size was captured
DecodedImage(task) ==
    [nbytes |-> IF task.display_width > 0 /\ task.display_height > 0 THEN 1 ELSE 2,
     src |-> task.path, width |-> task.display_width, height |-> task.display_height]

WorkerCachePut_skip(t) ==
    /\ t \in DOMAIN pf.tasks /\ pf.tasks[t].state = "l515"
    /\ pf' = [pf EXCEPT !.tasks[t].state = "l517"]
    /\ last' = NoLast
    /\ UNCHANGED <<cache, app, thr, hist>>

\* lines 507-515: cache_put(build_cache_key(path, display_generation), decoded_image)
WorkerCachePut(t) ==
    /\ t \in DOMAIN pf.tasks /\ pf.tasks[t].state = "l515"
    /\ LET task == pf.tasks[t]
           key == build_cache_key(task.path, task.display_generation)
           r == CachePut(cache, key, DecodedImage(task))
       IN  /\ cache' = IF r.raised = "none" THEN r.c ELSE cache
           /\ pf' = IF r.raised = "none" THEN [pf EXCEPT !.tasks[t].state = "l517"]
                    ELSE Finish(t, NoResult)
           /\ last' = NoLast
    /\ UNCHANGED <<app, thr, hist>>

\* line 517: return image_file.path, display_generation
WorkerReturn(t) ==
    /\ t \in DOMAIN pf.tasks /\ pf.tasks[t].state = "l517"
    /\ pf' = Finish(t, <<pf.tasks[t].path, pf.tasks[t].display_generation>>)
    /\ last' = NoLast
    /\ UNCHANGED <<cache, app, thr, hist>>

Workers ==
    \/ \E t \in 1..MaxTasks : WorkerStart(t)
    \/ \E t \in 1..MaxTasks, ok \in BOOLEAN : WorkerDecode(t, ok)
    \/ \E t \in 1..MaxTasks : WorkerRecheck(t)
    \/ \E t \in 1..MaxTasks : WorkerCachePut(t)
    \/ \E t \in 1..MaxTasks : WorkerReturn(t)

\* Spec: view-parameter changes against submitted work, at a fixed focus.
Next ==
    \/ UpdatePrefetch
    \/ \E index \in ValidIndices, priority \in BOOLEAN : SubmitTask(index, priority)
    \/ CancelAll
    \/ \E size \in DisplaySizes : HandleResize(size)
    \/ \E zoomed \in BOOLEAN : SetZoomed(zoomed)
    \/ SetColorMode
    \/ Workers

\* SpecSched: navigation and source-list changes under fixed view parameters.
NextSched ==
    \/ \E index \in ValidIndices, direction \in {1, -1} : Navigate(index, direction)
    \/ UpdatePrefetch
    \/ \E index \in ValidIndices, priority \in BOOLEAN : SubmitTask(index, priority)
    \/ CancelAll
    \/ \E image_files \in SourceLists : SetImageFiles(image_files)
    \/ Workers

SpecSched == InitSched /\ [][NextSched]_vars

Spec == Init /\ [][Next]_vars

----------------------------------------------------------------------------
(* C3: after every put, get, resize or clear has returned, currsize equals *)
(* the sum of the sizes of the resident entries as given by the sizing     *)
(* function, and that sum is at most the byte budget.                      *)
C3_BudgetInvariant ==
    /\ cache.currsize = SumSizes([k \in DOMAIN cache.data |->
                                     get_decoded_image_size(cache.data[k])],
                                 DOMAIN cache.data)
    /\ cache.currsize <= cache.maxsize

C3_Witness ==
    /\ last.op = "resize"
    /\ Len(last.evicted) >= 1
    /\ cache.currsize > 0
    /\ cache.currsize = cache.maxsize

(* C4: eviction follows least-recently-touched order: a key is never       *)
(* evicted while a key touched less recently than it stays resident.       *)
C4_EvictsLeastRecentlyTouched ==
    [][\A j \in 1..Len(last'.evicted) :
          \A r \in DOMAIN cache.data \ {last'.evicted[m] : m \in 1..j} :
              PosIn(hist, r) > PosIn(hist, last'.evicted[j])]_vars

C4_Witness ==
    /\ last.op = "put"
    /\ Len(last.evicted) >= 1
    /\ \E k \in DOMAIN cache.data : k # last.key

----------------------------------------------------------------------------
(* C1: every cache write by a worker is made under the display generation  *)
(* that was live when that worker's final staleness check ran: a task that *)
(* has written (it is at line 517) captured, through get_display_info at   *)
(* submission, the generation that was live at its check.                  *)
C1_WrittenUnderLiveGeneration ==
    \A t \in DOMAIN pf.tasks :
        pf.tasks[t].state = "l517" =>
            pf.tasks[t].display_generation = pf.tasks[t].chk_dgen

(* C2: a worker whose captured generation differs from the live generation *)
(* when its pre-write check runs writes nothing and returns nothing: the   *)
(* step of the check leaves the cache as it was and finishes the task with *)
(* no result, and a finished task takes no further step.                   *)
C2_StaleWorkerDiscards ==
    [][/\ (last'.op = "worker_recheck" /\ last'.gen # last'.chk_gen) =>
              /\ cache' = cache
              /\ pf'.tasks[last'.ret].state = "FINISHED"
              /\ pf'.tasks[last'.ret].result = NoResult
       /\ \A t \in DOMAIN pf.tasks :
              pf.tasks[t].state = "FINISHED" => pf'.tasks[t] = pf.tasks[t]]_vars

C2_Witness ==
    /\ last.op = "worker_recheck"
    /\ last.gen # last.chk_gen
    /\ pf.tasks[last.ret].state = "FINISHED"

(* C7: after a priority submit for index k returns, no task that is still  *)
(* waiting in the pool (and so could have been cancelled) remains in the   *)
(* handle table at an index more than 2 away from k, whether or not k      *)
(* already had a task in flight.                                           *)
C7_PrioritySubmitClearsFar ==
    (last.op = "submit_task" /\ last.priority) =>
        \A i \in DOMAIN pf.futures :
            pf.tasks[pf.futures[i]].state = "PENDING" => Abs(i - last.index) <= 2

(* C8: a priority submit for k that dispatches a new task calls cancel on  *)
(* exactly the not-yet-completed tasks more than 2 away from k, removes    *)
(* from the handle table those whose cancel succeeds, never calls cancel   *)
(* on a task within 2 of k, and leaves the new task for k in the table.    *)
C8_PriorityCancelsExactlyFar ==
    [][(last'.op = "submit_task" /\ last'.priority /\ last'.dispatched # 0) =>
          LET k == last'.index
              far == {i \in DOMAIN pf.futures :
                         Abs(i - k) > 2 /\ ~FutureDone(pf, pf.futures[i])}
          IN  /\ last'.cancel_called = {pf.futures[i] : i \in far}
              /\ \A i \in far :
                     pf.tasks[pf.futures[i]].state = "PENDING" =>
                         /\ i \notin DOMAIN pf'.futures
                         /\ pf'.tasks[pf.futures[i]].state = "CANCELLED"
              /\ \A i \in DOMAIN pf.futures :
                     Abs(i - k) <= 2 => pf.futures[i] \notin last'.cancel_called
              /\ k \in DOMAIN pf'.futures
              /\ pf'.futures[k] = last'.dispatched
              /\ last'.dispatched \notin DOMAIN pf.tasks
              /\ pf'.tasks[last'.dispatched].index = k]_vars

C8_Witness ==
    /\ last.op = "submit_task" /\ last.priority /\ last.dispatched # 0
    /\ \E t \in last.cancel_called : pf.tasks[t].state = "CANCELLED"
    /\ pf.futures[last.index] = last.dispatched

(* C9: submit is idempotent per index: when the handle table holds a       *)
(* non-completed task for the index, submit returns that handle,           *)
(* dispatches nothing and leaves the table entry for the index unchanged.  *)
C9_SubmitIdempotent ==
    [][(/\ last'.op = "submit_task"
        /\ last'.index \in DOMAIN pf.futures
        /\ ~FutureDone(pf, pf.futures[last'.index])) =>
          /\ last'.ret = pf.futures[last'.index]
          /\ last'.dispatched = 0
          /\ pf'.tasks = pf.tasks
          /\ last'.index \in DOMAIN pf'.futures
          /\ pf'.futures[last'.index] = pf.futures[last'.index]]_vars

C9_Witness ==
    /\ last.op = "submit_task" /\ last.dispatched = 0
    /\ last.index \in DOMAIN pf.futures
    /\ last.ret = pf.futures[last.index]
    /\ ~FutureDone(pf, last.ret)

(* C10: no index ever has two tasks that were dispatched to the pool and   *)
(* have neither completed nor been cancelled, whether or not their handle  *)
(* is still in the handle table.                                           *)
C10_OneOutstandingPerIndex ==
    \A t1, t2 \in DOMAIN pf.tasks :
        (/\ t1 # t2
         /\ ~FutureDone(pf, t1)
         /\ ~FutureDone(pf, t2)) => pf.tasks[t1].index # pf.tasks[t2].index

----------------------------------------------------------------------------
(* SpecCacheConc: the pool's workers run cache_put (prefetch.py line 515,  *)
(* wired to image_cache.__setitem__) while the coordinator reads the cache *)
(* (app.py lines 483-486).  ByteLRUCache takes no lock, so the statements  *)
(* of Cache.__setitem__, popitem and __getitem__ interleave.  thr.th[t] is *)
(* thread t's position and locals; thr.ops counts the operations begun.    *)

MaxConcOps == 3       \* operations begun in one run of SpecCacheConc

Coordinator == 0
PoolWorkers == 1..max_workers
CacheThreads == {Coordinator} \cup PoolWorkers

IdleThread ==
    [pc |-> "idle", key |-> <<>>, nbytes |-> 0, victim |-> <<>>,
     diffsize |-> 0, cur |-> 0, raised |-> "none"]

\* Cache.__delitem__ + LRUCache.__delitem__: drop key, its size and its order slot.
CacheDelItem(c, key) ==
    [c EXCEPT !.order = SeqRemove(@, key),
              !.data = Restrict(@, DOMAIN @ \ {key}),
              !.size = Restrict(@, DOMAIN @ \ {key}),
              !.currsize = @ - c.size[key]]

\* Cache.__setitem__: self.__data[key] = value; self.__size[key] = size.
CacheStore(c, key, value, size) ==
    [c EXCEPT !.data = [k \in DOMAIN c.data \cup {key} |->
                           IF k = key THEN value ELSE c.data[k]],
              !.size = [k \in DOMAIN c.size \cup {key} |->
                           IF k = key THEN size ELSE c.size[k]]]

InitCacheConc ==
    /\ InitCommon
    /\ pf = 0 /\ app = 0
    /\ thr = [th |-> [t \in CacheThreads |-> IdleThread], ops |-> 0]

ThreadStep(t, rec) == thr' = [thr EXCEPT !.th[t] = rec]

\* Cache.__setitem__ up to the eviction loop: size check and the loop's guard.
ConcPutBegin(t, key, nbytes) ==
    LET size == get_decoded_image_size([nbytes |-> nbytes]) IN
    /\ thr.th[t].pc = "idle"
    /\ thr.ops < MaxConcOps
    /\ thr' = [thr EXCEPT
                 !.ops = @ + 1,
                 !.th[t] = IF size > cache.maxsize
                           THEN [@ EXCEPT !.raised = "ValueError"]
                           ELSE [@ EXCEPT !.key = key, !.nbytes = size,
                                          !.pc = IF NeedsRoom(cache, key, size)
                                                 THEN "loop" ELSE "store"]]
    /\ UNCHANGED <<cache, pf, app, hist, last>>

\* while self.__currsize + size > maxsize: popitem() picks next(iter(order)).
ConcPutLoop(t) ==
    LET me == thr.th[t] IN
    /\ me.pc = "loop"
    /\ ThreadStep(t,
         IF cache.currsize + me.nbytes > cache.maxsize
         THEN IF cache.order = <<>>
              THEN [me EXCEPT !.pc = "idle", !.raised = "KeyError"]
              ELSE [me EXCEPT !.pc = "pop", !.victim = LRUVictim(cache)]
         ELSE [me EXCEPT !.pc = "store"])
    /\ UNCHANGED <<cache, pf, app, hist, last>>

\* popitem's self.pop(key): KeyError when the victim is gone, else delete it.
ConcPutPop(t) ==
    LET me == thr.th[t] IN
    /\ me.pc = "pop"
    /\ IF Contains(cache, me.victim)
       THEN /\ cache' = CacheDelItem(cache, me.victim)
            /\ ThreadStep(t, [me EXCEPT !.pc = "loop"])
       ELSE /\ cache' = cache
            /\ ThreadStep(t, [me EXCEPT !.pc = "idle", !.raised = "KeyError"])
    /\ UNCHANGED <<pf, app, hist, last>>

\* diffsize, the two table stores, and the read half of `currsize += diffsize`.
ConcPutStore(t) ==
    LET me == thr.th[t]
        diffsize == IF Contains(cache, me.key)
                    THEN me.nbytes - cache.size[me.key] ELSE me.nbytes
    IN
    /\ me.pc = "store"
    /\ cache' = CacheStore(cache, me.key, [nbytes |-> me.nbytes], me.nbytes)
    /\ ThreadStep(t, [me EXCEPT !.pc = "add", !.diffsize = diffsize,
                                !.cur = cache.currsize])
    /\ UNCHANGED <<pf, app, hist, last>>

\* The write half of `currsize += diffsize`, then LRUCache.__update(key).
ConcPutAdd(t) ==
    LET me == thr.th[t] IN
    /\ me.pc = "add"
    /\ cache' = LRUTouch([cache EXCEPT !.currsize = me.cur + me.diffsize], me.key)
    /\ ThreadStep(t, [me EXCEPT !.pc = "idle"])
    /\ UNCHANGED <<pf, app, hist, last>>

\* get_decoded_image line 483: `cache_key in self.image_cache`.
ConcGetBegin(key) ==
    /\ thr.th[Coordinator].pc = "idle"
    /\ thr.ops < MaxConcOps
    /\ thr' = [thr EXCEPT
                 !.ops = @ + 1,
                 !.th[Coordinator] =
                     IF Contains(cache, key)
                     THEN [@ EXCEPT !.key = key, !.pc = "getitem"]
                     ELSE @]
    /\ UNCHANGED <<cache, pf, app, hist, last>>

\* get_decoded_image line 486: self.image_cache[cache_key].
ConcGetItem ==
    LET me == thr.th[Coordinator] IN
    /\ me.pc = "getitem"
    /\ IF Contains(cache, me.key)
       THEN /\ cache' = LRUTouch(cache, me.key)
            /\ ThreadStep(Coordinator, [me EXCEPT !.pc = "idle"])
       ELSE /\ cache' = cache
            /\ ThreadStep(Coordinator, [me EXCEPT !.pc = "idle", !.raised = "KeyError"])
    /\ UNCHANGED <<pf, app, hist, last>>

NextCacheConc ==
    \/ \E t \in PoolWorkers, key \in CacheKeys, nbytes \in 1..MaxItemBytes :
           ConcPutBegin(t, key, nbytes)
    \/ \E t \in PoolWorkers : ConcPutLoop(t)
    \/ \E t \in PoolWorkers : ConcPutPop(t)
    \/ \E t \in PoolWorkers : ConcPutStore(t)
    \/ \E t \in PoolWorkers : ConcPutAdd(t)
    \/ \E key \in CacheKeys : ConcGetBegin(key)
    \/ ConcGetItem

SpecCacheConc == InitCacheConc /\ [][NextCacheConc]_vars

CacheQuiescent == \A t \in CacheThreads : thr.th[t].pc = "idle"

(* C5: the cache serializes its own get/put/evict: with workers running   *)
(* put concurrently with each other and with the coordinator's get, once   *)
(* the operations have returned the tracked total equals the sum of the    *)
(* resident entries' sizes, is at most maxBytes, and no operation failed   *)
(* because of the interleaving (a KeyError, which no serial run raises).   *)
C5_CacheSerializesOperations ==
    CacheQuiescent =>
        /\ cache.currsize = SumSizes(cache.size, DOMAIN cache.size)
        /\ cache.currsize <= cache.maxsize
        /\ \A t \in CacheThreads : thr.th[t].raised # "KeyError"

----------------------------------------------------------------------------
(* SpecThreads: update_prefetch, cancel_all and set_image_files called     *)
(* from several threads at once, as tests/test_prefetch_concurrency.py     *)
(* does (two updaters, a canceller, a file-list setter).  The Prefetcher   *)
(* takes no lock, so the calls interleave between statements.  Each action *)
(* below is a run of consecutive statements of one call.                   *)
(*   thr.th[t]   thread t's position and locals                            *)
(*   thr.ops     calls begun                                               *)
(*   thr.sdict   self._scheduled as generation -> set object id            *)
(*   thr.sets    the set objects; a local `scheduled` names one by id and  *)
(*               keeps it after _scheduled dropped it                      *)
(*   thr.forder  insertion order of self.futures (0 - 1 marks a deleted    *)
(*               slot), which a live values() iterator walks               *)
(* pf.scheduled is kept equal to the contents of self._scheduled.          *)

MaxThreadOps == 2     \* calls begun in one run of SpecThreads

Updaters == {1, 2}
Canceller == 3
FileSetter == 4
CallerThreads == Updaters \cup {Canceller, FileSetter}

Tombstone == 0 - 1

IdleCaller ==
    [pc |-> "idle", raised |-> "none", current_index |-> 0, old_generations |-> {},
     start |-> 0, end |-> 0, stale_keys |-> <<>>, sref |-> 0, order |-> <<>>,
     index |-> 0, size0 |-> 0, pos |-> 0]

\* A call returns or raises: the thread's locals are released.
Returned(me) == [IdleCaller EXCEPT !.raised = me.raised]
Raised(exc) == [IdleCaller EXCEPT !.raised = exc]

SchedView(h) == [g \in DOMAIN h.sdict |-> h.sets[h.sdict[g]]]

\* Set objects neither in self._scheduled nor named by a local are garbage.
Collect(h) ==
    LET live == {h.sdict[g] : g \in DOMAIN h.sdict}
                    \cup {h.th[t].sref : t \in CallerThreads}
    IN  [h EXCEPT !.sets = [id \in DOMAIN @ |-> IF id \in live THEN @[id] ELSE {}]]

Commit(p, h) ==
    /\ thr' = Collect(h)
    /\ pf' = [p EXCEPT !.scheduled = SchedView(h)]
    /\ UNCHANGED <<cache, app, hist, last>>

InitThreads ==
    /\ InitCommon
    /\ pf = NewPrefetcher(FullList)
    /\ app = NewApp
    /\ thr = [th |-> [t \in CallerThreads |-> IdleCaller], ops |-> 0,
              sets |-> <<>>, sdict |-> <<>>, forder |-> <<>>]

\* del d[k] for each k of keys in turn; the first missing key raises KeyError.
RECURSIVE DelEach(_, _)
DelEach(r, keys) ==
    IF keys = <<>> THEN r
    ELSE IF Head(keys) \notin DOMAIN r.d THEN [r EXCEPT !.raised = "KeyError"]
    ELSE DelEach([r EXCEPT !.d = Restrict(@, DOMAIN @ \ {Head(keys)})], Tail(keys))

\* a set of integers as the increasing sequence
RECURSIVE Ascending(_)
Ascending(S) ==
    IF S = {} THEN <<>>
    ELSE LET m == CHOOSE x \in S : \A y \in S : x <= y IN <<m>> \o Ascending(S \ {m})

ForderDel(forder, gone) ==
    [j \in DOMAIN forder |-> IF forder[j] \in gone THEN Tombstone ELSE forder[j]]

ForderPut(forder, key) ==
    IF key \in SeqRange(forder) THEN forder ELSE Append(forder, key)

\* update_prefetch line 187: old_generations = [g for g in _scheduled if g < generation]
ThrUpdateBegin(t, current_index) ==
    /\ thr.th[t].pc = "idle"
    /\ thr.ops < MaxThreadOps
    /\ Commit(pf, [thr EXCEPT
          !.ops = @ + 1,
          !.th[t] = [@ EXCEPT !.pc = "prune", !.current_index = current_index,
                              !.old_generations =
                                  {g \in DOMAIN thr.sdict : g < pf.generation}]])

\* lines 188-225 (called with is_navigation=True, direction=1, as the test does):
\* delete the old sets, track direction and navigation, compute
\* the window, and scheduled = self._scheduled.setdefault(self.generation, set())
ThrUpdatePrune(t) ==
    LET me == thr.th[t]
        r == DelEach([d |-> thr.sdict, raised |-> "none"], Ascending(me.old_generations))
        p1 == [pf EXCEPT !.last_navigation_direction = 1,
                         !.navigation_count = @ + 1,
                         !.radius_expanded = @ \/ (pf.navigation_count + 1 >= 2)]
        fresh == pf.generation \notin DOMAIN r.d
        id == IF fresh THEN Len(thr.sets) + 1 ELSE r.d[pf.generation]
        sdict1 == IF fresh
                  THEN [g \in DOMAIN r.d \cup {pf.generation} |->
                           IF g = pf.generation THEN id ELSE r.d[g]]
                  ELSE r.d
    IN
    /\ me.pc = "prune"
    /\ IF r.raised # "none"
       THEN Commit(pf, [thr EXCEPT !.sdict = r.d, !.th[t] = Raised(r.raised)])
       ELSE Commit(p1, [thr EXCEPT
               !.sdict = sdict1,
               !.sets = IF fresh THEN Append(@, {}) ELSE @,
               !.th[t] = [me EXCEPT !.pc = "scan", !.old_generations = {},
                                    !.start = WindowStart(p1, me.current_index),
                                    !.end = WindowEnd(p1, me.current_index),
                                    !.sref = id]])

\* lines 228-233: cancel the futures outside the window, collect stale_keys
ThrUpdateScan(t) ==
    LET me == thr.th[t]
        items == SelectSeq(thr.forder, LAMBDA i : i # Tombstone)
        stale_keys == SelectSeq(items, LAMBDA i :
                          (i < me.start \/ i >= me.end)
                              /\ CancelSucceeds(pf, pf.futures[i]))
        p1 == CancelEach(pf, {pf.futures[i] : i \in
                                 {j \in DOMAIN pf.futures : j < me.start \/ j >= me.end}})
    IN
    /\ me.pc = "scan"
    /\ Commit(p1, [thr EXCEPT
          !.sets[me.sref] = @ \ SeqRange(stale_keys),
          !.th[t] = [me EXCEPT !.pc = "del", !.stale_keys = stale_keys]])

\* lines 240-246 with the start and end computed at lines 218-219
ThrPriorityOrder(direction, current_index, start, end) ==
    LET up == RangeUp(current_index + 1, end)
        down == RangeDown(current_index - 1, start - 1)
    IN  IF direction > 0 THEN <<current_index>> \o up \o down
        ELSE <<current_index>> \o down \o up

\* lines 234-246: del self.futures[key] for each stale key, then priority_order
ThrUpdateDel(t) ==
    LET me == thr.th[t]
        r == DelEach([d |-> pf.futures, raised |-> "none"], me.stale_keys)
        p1 == [pf EXCEPT !.futures = r.d]
        forder1 == ForderDel(thr.forder, DOMAIN pf.futures \ DOMAIN r.d)
    IN
    /\ me.pc = "del"
    /\ Commit(p1, [thr EXCEPT
          !.forder = forder1,
          !.th[t] = IF r.raised # "none" THEN Raised(r.raised)
                    ELSE [me EXCEPT !.pc = "loop", !.stale_keys = <<>>,
                                    !.order = ThrPriorityOrder(pf.last_navigation_direction,
                                                  me.current_index, me.start, me.end)]])

\* lines 248-250: the iterations of the submit loop that `continue` or find i
\* scheduled or in flight; what is returned starts with the next i to submit
RECURSIVE SkipScheduled(_, _, _)
SkipScheduled(order, p, scheduled) ==
    IF order = <<>> THEN order
    ELSE LET i == Head(order) IN
         IF i < 0 \/ i >= Len(p.image_files) THEN SkipScheduled(Tail(order), p, scheduled)
         ELSE IF i \notin scheduled /\ i \notin DOMAIN p.futures THEN order
         ELSE SkipScheduled(Tail(order), p, scheduled)

\* lines 248-250: the submit loop up to its next call of submit_task
ThrUpdateLoop(t) ==
    LET me == thr.th[t]
        order == SkipScheduled(me.order, pf, thr.sets[me.sref])
    IN
    /\ me.pc = "loop"
    /\ Commit(pf, [thr EXCEPT !.th[t] =
          IF order = <<>> THEN Returned(me)
          ELSE [me EXCEPT !.order = Tail(order), !.pc = "submit", !.index = Head(order)]])

\* line 251, submit_task (lines 263-264, 289-295) and line 252:
\* self.image_files[index] raises IndexError past the end of the list
ThrUpdateSubmit(t) ==
    LET me == thr.th[t] IN
    /\ me.pc = "submit"
    /\ IF AlreadySubmitted(pf, me.index)
       THEN Commit(pf, [thr EXCEPT !.sets[me.sref] = @ \cup {me.index},
                                   !.th[t] = [me EXCEPT !.pc = "loop"]])
       ELSE IF me.index >= Len(pf.image_files)
       THEN Commit(pf, [thr EXCEPT !.th[t] = Raised("IndexError")])
       ELSE Commit(Dispatch(pf, get_display_info(app), me.index, pf.generation),
                   [thr EXCEPT !.forder = ForderPut(@, me.index),
                               !.sets[me.sref] = @ \cup {me.index},
                               !.th[t] = [me EXCEPT !.pc = "loop"]])

\* cancel_all line 539 and the creation of the iterator of line 540
CancelGen(t) ==
    Commit([pf EXCEPT !.generation = @ + 1],
           [thr EXCEPT !.th[t] = [@ EXCEPT !.pc = "iter", !.pos = 1,
                                           !.size0 = Cardinality(DOMAIN pf.futures)]])

\* the canceller thread calls cancel_all
ThrCancelAllCall(t) ==
    /\ t = Canceller
    /\ thr.th[t].pc = "idle"
    /\ thr.ops < MaxThreadOps
    /\ Commit([pf EXCEPT !.generation = @ + 1],
              [thr EXCEPT !.ops = @ + 1,
                          !.th[t] = [@ EXCEPT !.pc = "iter", !.pos = 1,
                                              !.size0 = Cardinality(DOMAIN pf.futures)]])

\* set_image_files lines 171-172
ThrSetFilesCall(t, image_files) ==
    /\ t = FileSetter
    /\ thr.th[t].pc = "idle"
    /\ thr.ops < MaxThreadOps
    /\ IF pf.image_files # image_files
       THEN Commit([pf EXCEPT !.image_files = image_files],
                   [thr EXCEPT !.ops = @ + 1, !.th[t] = [@ EXCEPT !.pc = "gen"]])
       ELSE Commit(pf, [thr EXCEPT !.ops = @ + 1])

\* set_image_files line 173: cancel_all begins
ThrCancelGen(t) ==
    /\ thr.th[t].pc = "gen"
    /\ CancelGen(t)

\* lines 540-541: one next() of the values() iterator; the dict's size is
\* compared with the size at the iterator's creation before anything else
ThrCancelIter(t) ==
    LET me == thr.th[t]
        rest == {j \in me.pos..Len(thr.forder) : thr.forder[j] # Tombstone}
        j == CHOOSE x \in rest : \A y \in rest : x <= y
    IN
    /\ me.pc = "iter"
    /\ IF Cardinality(DOMAIN pf.futures) # me.size0
       THEN Commit(pf, [thr EXCEPT !.th[t] = Raised("RuntimeError")])
       ELSE IF rest = {}
       THEN Commit(pf, [thr EXCEPT !.th[t] = [me EXCEPT !.pc = "clear"]])
       ELSE Commit(FutureCancel(pf, pf.futures[thr.forder[j]]),
                   [thr EXCEPT !.th[t] = [me EXCEPT !.pos = j + 1]])

\* lines 542-543: self.futures.clear(); self._scheduled.clear()
ThrCancelClear(t) ==
    LET me == thr.th[t] IN
    /\ me.pc = "clear"
    /\ Commit([pf EXCEPT !.futures = <<>>],
              [thr EXCEPT !.forder = <<>>, !.sdict = <<>>, !.th[t] = Returned(me)])

NextThreads ==
    \/ \E t \in Updaters, i \in 0..(NumImages - 1) : ThrUpdateBegin(t, i)
    \/ \E t \in Updaters : ThrUpdatePrune(t)
    \/ \E t \in Updaters : ThrUpdateScan(t)
    \/ \E t \in Updaters : ThrUpdateDel(t)
    \/ \E t \in Updaters : ThrUpdateLoop(t)
    \/ \E t \in Updaters : ThrUpdateSubmit(t)
    \/ ThrCancelAllCall(Canceller)
    \/ \E image_files \in SourceLists : ThrSetFilesCall(FileSetter, image_files)
    \/ ThrCancelGen(FileSetter)
    \/ \E t \in {Canceller, FileSetter} : ThrCancelIter(t)
    \/ \E t \in {Canceller, FileSetter} : ThrCancelClear(t)
    \/ Workers

SpecThreads == InitThreads /\ [][NextThreads]_vars

CallersQuiescent == \A t \in CallerThreads : thr.th[t].pc = "idle"

(* C6: when update_prefetch, cancel_all and set_image_files (swapping      *)
(* between source lists of different lengths) run concurrently on several  *)
(* threads, no call raises an exception, and once the calls have returned  *)
(* the ScheduledSet holds no entry for a generation above the live one.    *)
C6_ConcurrentCallsRaiseNothing ==
    /\ \A t \in CallerThreads : thr.th[t].raised = "none"
    /\ CallersQuiescent => \A g \in DOMAIN pf.scheduled : g <= pf.generation

----------------------------------------------------------------------------
(* SpecWindow: the scheduler on a longer list and for every configured     *)
(* radius.  The coordinator calls update_prefetch as _do_prefetch does     *)
(* (a navigation carries a direction, any other update carries none),      *)
(* cancel_all and set_image_files, while the dispatched tasks wait in the   *)
(* pool's queue.  thr counts the coordinator's calls, at most max_ops.     *)

NumWinImages == 7     \* length of the list in SpecWindow
MaxRadius == 3        \* largest configured prefetch radius
MaxWinOps == 3        \* coordinator calls in one run of SpecWindow

WinList == [j \in 1..NumWinImages |-> j]
WinShortList == [j \in 1..(NumWinImages - 2) |-> j]
WinLists == {WinList, WinShortList}

\* the (is_navigation, direction) pairs _do_prefetch is called with
UpdateModes == {<<FALSE, NoDirection>>, <<TRUE, 1>>, <<TRUE, 0 - 1>>}

InitWindow ==
    /\ InitCommon
    /\ app = NewApp
    /\ thr = 0
    /\ \E radius \in 1..MaxRadius :
           pf = [NewPrefetcher(WinList) EXCEPT !.prefetch_radius = radius]

\* _do_prefetch -> Prefetcher.update_prefetch
WinUpdate(max_ops, current_index, mode) ==
    LET r == update_prefetch(pf, get_display_info(app), current_index, mode[1], mode[2]) IN
    /\ thr < max_ops
    /\ current_index \in ValidIndices
    /\ thr' = thr + 1
    /\ pf' = r.p
    /\ app' = [app EXCEPT !.current_index = current_index]
    /\ last' = [NoLast EXCEPT !.op = "update_prefetch", !.index = current_index,
                              !.is_navigation = mode[1], !.submitted = r.submitted,
                              !.start = WindowStart(r.p, current_index),
                              !.end = WindowEnd(r.p, current_index)]
    /\ UNCHANGED <<cache, hist>>

\* Prefetcher.cancel_all
WinCancelAll(max_ops) ==
    /\ thr < max_ops
    /\ thr' = thr + 1
    /\ pf' = cancel_all(pf)
    /\ last' = [NoLast EXCEPT !.op = "cancel_all", !.gen = pf.generation,
                              !.cancel_called = {pf.futures[i] : i \in DOMAIN pf.futures}]
    /\ UNCHANGED <<cache, app, hist>>

\* _apply_filter_to_cached_list -> Prefetcher.set_image_files
WinSetImageFiles(max_ops, image_files) ==
    /\ thr < max_ops
    /\ thr' = thr + 1
    /\ pf' = set_image_files(pf, image_files)
    /\ app' = [app EXCEPT !.current_index = Min(@, Max(0, Len(image_files) - 1))]
    /\ last' = [NoLast EXCEPT !.op = "set_image_files"]
    /\ UNCHANGED <<cache, hist>>

NextWindow ==
    \/ \E i \in 0..(NumWinImages - 1), mode \in UpdateModes : WinUpdate(MaxWinOps, i, mode)
    \/ WinCancelAll(MaxWinOps)
    \/ \E image_files \in WinLists : WinSetImageFiles(MaxWinOps, image_files)

SpecWindow == InitWindow /\ [][NextWindow]_vars

(* SpecWindowPool: the same calls, fewer of them, with the pool running:   *)
(* a free worker takes the oldest pending task and runs it to its return.  *)

MaxPoolOps == 2       \* coordinator calls in one run of SpecWindowPool

\* _decode_and_cache from its first line to its return, without interruption
WinWorkerRun(t, ok) ==
    /\ t \in DOMAIN pf.tasks /\ pf.tasks[t].state = "l304"
    /\ LET task == pf.tasks[t]
           key == build_cache_key(task.path, task.display_generation)
           r == CachePut(cache, key, DecodedImage(task))
           written == ~StaleNow(t) /\ ok /\ r.raised = "none"
       IN  /\ cache' = IF written THEN r.c ELSE cache
           /\ pf' = IF written THEN Finish(t, <<task.path, task.display_generation>>)
                    ELSE Finish(t, NoResult)
    /\ last' = NoLast
    /\ UNCHANGED <<app, thr, hist>>

NextWindowPool ==
    \/ \E i \in 0..(NumWinImages - 1), mode \in UpdateModes : WinUpdate(MaxPoolOps, i, mode)
    \/ WinCancelAll(MaxPoolOps)
    \/ \E image_files \in WinLists : WinSetImageFiles(MaxPoolOps, image_files)
    \/ \E t \in 1..MaxTasks : WorkerStart(t)
    \/ \E t \in 1..MaxTasks, ok \in BOOLEAN : WinWorkerRun(t, ok)

SpecWindowPool == InitWindow /\ [][NextWindowPool]_vars

\* an index is scheduled: in the live generation's set or with a handle
IsScheduled(p, i) == i \in ScheduledNow(p) \/ i \in DOMAIN p.futures

WindowIs(lo, hi) ==
    /\ last.start = lo /\ last.end = hi + 1
    /\ \A i \in lo..hi : IsScheduled(pf, i)
    /\ \A j \in 1..Len(last.submitted) : last.submitted[j] \in lo..hi

BeforeNavigation == last.op = "update_prefetch" /\ pf.navigation_count = 0

(* C15 as stated: before any navigation has been reported, update(focus)   *)
(* uses a window symmetric about the focus with the configured radius on   *)
(* each side, clamped to the sequence (radius 4, length 100, focus 50:     *)
(* the indices 46 through 54).                                             *)
C15_SymmetricConfiguredWindow ==
    BeforeNavigation =>
        WindowIs(Max(0, last.index - pf.prefetch_radius),
                 Min(Len(pf.image_files) - 1, last.index + pf.prefetch_radius))

(* C15 amended: before any navigation has been reported, update(focus)     *)
(* uses the startup radius 2 split for forward travel, whatever radius is  *)
(* configured: the window is focus-1 through focus+2, clamped to the       *)
(* sequence (radius 4, length 100, focus 50: the indices 49 through 52).   *)
C15_StartupForwardWindow ==
    BeforeNavigation =>
        WindowIs(Max(0, last.index - 1), Min(Len(pf.image_files) - 1, last.index + 2))

C15_Witness ==
    /\ BeforeNavigation
    /\ pf.prefetch_radius = MaxRadius
    /\ last.index - 1 > 0
    /\ last.index + 2 < Len(pf.image_files) - 1
    /\ last.submitted = <<last.index, last.index + 1, last.index + 2, last.index - 1>>

\* the radius an update called now would use
RadiusFor(count, configured) == IF count >= 2 THEN configured ELSE initial_radius

(* C16: the effective radius is the startup radius until the navigation    *)
(* counter reaches 2; from the update that records the second navigation   *)
(* on it is the configured radius and never reverts (not after cancel_all, *)
(* a generation bump or a change of the source sequence); an update with   *)
(* is_navigation false never advances the counter.                         *)
C16_RadiusExpandsOnceForGood ==
    [][/\ EffectiveRadius(pf') = RadiusFor(pf'.navigation_count, pf'.prefetch_radius)
       /\ pf'.navigation_count >= pf.navigation_count
       /\ (pf.radius_expanded => pf'.radius_expanded)
       /\ (last'.op = "update_prefetch" =>
              /\ pf'.navigation_count =
                     pf.navigation_count + (IF last'.is_navigation THEN 1 ELSE 0)
              /\ last'.end - last'.start <=
                     RadiusFor(pf'.navigation_count, pf'.prefetch_radius) + 2
              /\ (/\ last'.index - RadiusFor(pf'.navigation_count, pf'.prefetch_radius) >= 0
                  /\ last'.index + RadiusFor(pf'.navigation_count, pf'.prefetch_radius)
                         < Len(pf'.image_files))
                     => last'.end - last'.start =
                            RadiusFor(pf'.navigation_count, pf'.prefetch_radius) + 2)
       /\ (last'.op # "update_prefetch" =>
              pf'.navigation_count = pf.navigation_count)]_vars

\* an expanded scheduler has just gone through cancel_all and kept its radius
C16_Witness ==
    /\ last.op \in {"cancel_all", "set_image_files"}
    /\ pf.generation > 0
    /\ pf.navigation_count = 2
    /\ pf.radius_expanded
    /\ pf.prefetch_radius # initial_radius
    /\ EffectiveRadius(pf) = pf.prefetch_radius

\* place of index i in the order of priority around focus f when travelling
\* in direction dir: the focus, the travel side outwards, the other side outwards
PriorityRank(i, f, dir) ==
    IF i = f THEN 0
    ELSE IF (i - f) * dir > 0 THEN Abs(i - f)
    ELSE NumWinImages + 1 + Abs(i - f)

(* C17: within one update call tasks are submitted in priority order: the  *)
(* focus first, then the travel side from nearest to farthest, then the    *)
(* opposite side from nearest to farthest; no index of the opposite side   *)
(* is submitted before one of the travel side.                             *)
C17_SubmittedInPriorityOrder ==
    last.op = "update_prefetch" =>
        \A a, b \in 1..Len(last.submitted) :
            a < b => PriorityRank(last.submitted[a], last.index, pf.last_navigation_direction)
                       < PriorityRank(last.submitted[b], last.index, pf.last_navigation_direction)

\* a backward update that submitted the focus, two behind it and one ahead
C17_Witness ==
    /\ last.op = "update_prefetch"
    /\ pf.last_navigation_direction < 0
    /\ Len(last.submitted) >= 4
    /\ last.submitted[1] = last.index
    /\ last.submitted[2] = last.index - 1
    /\ last.submitted[3] = last.index - 2
    /\ last.submitted[Len(last.submitted)] = last.index + 1

OutsideWindow(i) == i < last.start \/ i >= last.end

(* C18: update cancels and forgets every outstanding task whose index is   *)
(* outside the new window: after update(focus) returns no non-completed    *)
(* task with an index outside the window remains in the handle table or in *)
(* the live generation's ScheduledSet; a task that could no longer be      *)
(* cancelled is forgotten too.                                             *)
C18_UpdateForgetsOutsideWindow ==
    last.op = "update_prefetch" =>
        \A t \in DOMAIN pf.tasks :
            (/\ ~FutureDone(pf, t)
             /\ pf.tasks[t].generation = pf.generation
             /\ OutsideWindow(pf.tasks[t].index))
                => /\ ~(\E i \in DOMAIN pf.futures : pf.futures[i] = t)
                   /\ pf.tasks[t].index \notin ScheduledNow(pf)

(* C19: after cancel_all returns, cancellation has been attempted on every *)
(* handle that was in the handle table (none of them is still pending),    *)
(* the handle table is empty, the ScheduledSet is empty for every          *)
(* generation, and the generation is strictly greater than before.         *)
C19_CancelAllClearsEverything ==
    last.op = "cancel_all" =>
        /\ \A t \in last.cancel_called : pf.tasks[t].state # "PENDING"
        /\ DOMAIN pf.futures = {}
        /\ DOMAIN pf.scheduled = {}
        /\ pf.generation > last.gen

\* cancel_all met a running handle, which it could not cancel, and a pending one
C19_Witness ==
    /\ last.op = "cancel_all"
    /\ \E t \in last.cancel_called : pf.tasks[t].state \in RunningStates
    /\ \E t \in last.cancel_called : pf.tasks[t].state = "CANCELLED"
    /\ pf.generation = last.gen + 1

----------------------------------------------------------------------------
(* SpecRead: the blocking read path.  The GUI thread calls                 *)
(* get_decoded_image, navigates, zooms, cancels, opens another folder and  *)
(* shuts down, one call at a time; while it waits inside future.result the *)
(* pool's workers run.  thr is the GUI thread's frame: the number of calls *)
(* made (ops), where it stands in get_decoded_image (pc), the handle it    *)
(* waits on, the key it looks up, and whether the executor was shut down.  *)
(* hist tells whether a read has returned an entry (<<"returned">>) and    *)
(* whether another folder was opened since (<<"returned", "folder">>).     *)

NumReadImages == 2    \* images in each folder of SpecRead
MaxReadOps == 3       \* GUI-thread calls in one run of SpecRead

FolderA == [j \in 1..NumReadImages |-> j]
FolderB == [j \in 1..NumReadImages |-> NumReadImages + j]
Folders == {FolderA, FolderB}

NewReadApp ==
    [display_width |-> 0, display_height |-> 0, display_generation |-> 0,
     is_zoomed |-> FALSE, current_index |-> 0, last_displayed_image |-> NoImage]

IdleFrame ==
    [ops |-> 0, pc |-> "idle", index |-> -1, future |-> 0,
     key |-> <<>>, req_key |-> <<>>, shutdown |-> FALSE]

InitRead ==
    /\ InitCommon
    /\ app = NewReadApp
    /\ pf = NewPrefetcher(FolderA)
    /\ thr = IdleFrame

\* the GUI thread is free to make its next call
GuiReady(max_ops) == thr.pc = "idle" /\ thr.ops < max_ops

\* get_decoded_image returns: the frame is popped and the outcome recorded
ReadReturn(image, fallback, key, path) ==
    /\ thr' = [IdleFrame EXCEPT !.ops = thr.ops, !.shutdown = thr.shutdown]
    /\ last' = [NoLast EXCEPT !.op = "get_decoded_image", !.index = thr.index,
                              !.image = image, !.fallback = fallback,
                              !.key = key, !.req_key = thr.req_key, !.path = path]

\* an exception leaves get_decoded_image
ReadRaise(exc, path) ==
    /\ thr' = [IdleFrame EXCEPT !.ops = thr.ops, !.shutdown = thr.shutdown]
    /\ last' = [NoLast EXCEPT !.op = "get_decoded_image", !.index = thr.index,
                              !.raised = exc, !.req_key = thr.req_key, !.path = path]

\* get_decoded_image, lines 451-524: bounds check, cache check, priority submit
ReadBegin(max_ops, index) ==
    /\ GuiReady(max_ops)
    /\ IF index < 0 \/ index >= Len(pf.image_files)
       THEN /\ thr' = [thr EXCEPT !.ops = @ + 1]
            /\ last' = [NoLast EXCEPT !.op = "get_decoded_image", !.index = index,
                                      !.path = "bounds"]
            /\ UNCHANGED pf
       ELSE LET cache_key == build_cache_key(pf.image_files[index + 1],
                                             get_display_info(app)[3])
                frame == [thr EXCEPT !.ops = @ + 1, !.index = index,
                                     !.key = cache_key, !.req_key = cache_key]
            IN  IF Contains(cache, cache_key)
                THEN /\ thr' = [frame EXCEPT !.pc = "l486"]
                     /\ last' = NoLast
                     /\ UNCHANGED pf
                ELSE IF thr.shutdown
                \* executor.submit after executor.shutdown raises RuntimeError
                THEN /\ thr' = [thr EXCEPT !.ops = @ + 1]
                     /\ last' = [NoLast EXCEPT !.op = "get_decoded_image",
                                               !.index = index, !.raised = "RuntimeError",
                                               !.req_key = cache_key, !.path = "miss"]
                     /\ UNCHANGED pf
                ELSE LET r == submit_task(pf, get_display_info(app), index,
                                          pf.generation, TRUE)
                     IN  /\ pf' = r.p
                         /\ thr' = [frame EXCEPT !.pc = "l531", !.future = r.ret]
                         /\ last' = NoLast
    /\ UNCHANGED <<cache, app, hist>>

ReadResult_grey ==
    /\ thr.pc = "l531"
    /\ LET task == pf.tasks[thr.future]
           cache_key == build_cache_key(task.result[1], task.result[2])
       IN  IF task.state = "FINISHED" /\ task.result # NoResult
                /\ Contains(cache, cache_key)
           THEN /\ thr' = [thr EXCEPT !.pc = "l554", !.key = cache_key]
                /\ last' = NoLast
           ELSE ReadReturn(NoImage, TRUE, <<>>, "miss")
    /\ UNCHANGED <<cache, pf, app, hist>>

\* lines 531-565: future.result(timeout=5.0) returns, raises CancelledError,
\* or times out while the task is still pending or running
ReadResult ==
    /\ thr.pc = "l531"
    /\ LET task == pf.tasks[thr.future]
           cache_key == build_cache_key(task.result[1], task.result[2])
       IN  IF task.state = "FINISHED" /\ task.result # NoResult
                /\ Contains(cache, cache_key)
           THEN /\ thr' = [thr EXCEPT !.pc = "l554", !.key = cache_key]
                /\ last' = NoLast
           ELSE ReadReturn(app.last_displayed_image, TRUE, <<>>, "miss")
    /\ UNCHANGED <<cache, pf, app, hist>>

\* lines 486-489 and 554-560: decoded = self.image_cache[cache_key]
ReadItem ==
    /\ thr.pc \in {"l486", "l554"}
    /\ LET path == IF thr.pc = "l486" THEN "hit" ELSE "miss" IN
       IF Contains(cache, thr.key)
       THEN /\ cache' = CacheGet(cache, thr.key)
            /\ app' = [app EXCEPT !.last_displayed_image = cache.data[thr.key]]
            /\ hist' = <<"returned">>
            /\ ReadReturn(cache.data[thr.key], FALSE, thr.key, path)
       ELSE /\ ReadRaise("KeyError", path)
            /\ UNCHANGED <<cache, app, hist>>
    /\ UNCHANGED pf

\* update_prefetch when every executor.submit raises: the first submission,
\* for current_index, raises before anything is dispatched or recorded
update_after_shutdown(p, dinfo, current_index, is_navigation, direction) ==
    LET r == update_prefetch(p, dinfo, current_index, is_navigation, direction) IN
    [r.p EXCEPT !.tasks = p.tasks, !.futures = p.futures,
                !.scheduled[p.generation] = {}]

\* navigation to index -> _do_prefetch(index, is_navigation=True, direction)
ReadNavigate(max_ops, index) ==
    LET direction == IF index >= app.current_index THEN 1 ELSE 0 - 1
        r == update_prefetch(pf, get_display_info(app), index, TRUE, direction)
    IN
    /\ GuiReady(max_ops)
    /\ index \in ValidIndices
    /\ thr' = [thr EXCEPT !.ops = @ + 1]
    /\ app' = [app EXCEPT !.current_index = index]
    /\ IF thr.shutdown
       THEN /\ pf' = update_after_shutdown(pf, get_display_info(app), index, TRUE, direction)
            /\ last' = [NoLast EXCEPT !.op = "update_prefetch", !.index = index,
                                      !.raised = "RuntimeError"]
       ELSE /\ pf' = r.p
            /\ last' = [NoLast EXCEPT !.op = "update_prefetch", !.index = index,
                                      !.submitted = r.submitted]
    /\ UNCHANGED <<cache, hist>>

\* AppController.set_zoomed
ReadSetZoomed(max_ops, zoomed) ==
    /\ GuiReady(max_ops)
    /\ thr' = [thr EXCEPT !.ops = @ + 1]
    /\ app' = [app EXCEPT !.is_zoomed = zoomed, !.display_generation = @ + 1]
    /\ last' = [NoLast EXCEPT !.op = "set_zoomed"]
    /\ UNCHANGED <<cache, pf, hist>>

\* Prefetcher.cancel_all
ReadCancelAll(max_ops) ==
    /\ GuiReady(max_ops)
    /\ thr' = [thr EXCEPT !.ops = @ + 1]
    /\ pf' = cancel_all(pf)
    /\ last' = [NoLast EXCEPT !.op = "cancel_all"]
    /\ UNCHANGED <<cache, app, hist>>

\* AppController.open_folder: forget the last displayed image, clear the
\* cache, cancel_all, bump display_generation, then load() the new folder
OpenFolder(max_ops, image_files) ==
    LET a1 == [app EXCEPT !.last_displayed_image = NoImage,
                          !.display_generation = @ + 1, !.current_index = 0]
        p1 == set_image_files(cancel_all(pf), image_files)
        r == update_prefetch(p1, get_display_info(a1), 0, FALSE, NoDirection)
    IN
    /\ GuiReady(max_ops)
    /\ ~thr.shutdown
    /\ thr' = [thr EXCEPT !.ops = @ + 1]
    /\ cache' = CacheClear(cache)
    /\ app' = a1
    /\ pf' = r.p
    /\ last' = [NoLast EXCEPT !.op = "open_folder"]
    /\ hist' = IF hist = <<>> THEN <<>> ELSE <<"returned", "folder">>

\* AppController.shutdown -> Prefetcher.shutdown: cancel_all, executor.shutdown(wait=False)
Shutdown(max_ops) ==
    /\ GuiReady(max_ops)
    /\ ~thr.shutdown
    /\ thr' = [thr EXCEPT !.ops = @ + 1, !.shutdown = TRUE]
    /\ pf' = cancel_all(pf)
    /\ last' = [NoLast EXCEPT !.op = "shutdown", !.gen = pf.generation,
                              !.cancel_called = {pf.futures[i] : i \in DOMAIN pf.futures}]
    /\ UNCHANGED <<cache, app, hist>>

\* a pool worker takes the oldest pending task
ReadWorkerStart(t) ==
    /\ t \in DOMAIN pf.tasks
    /\ WorkerStart(t)

\* and runs _decode_and_cache to its return
ReadWorkerRun(t, ok) ==
    /\ t \in DOMAIN pf.tasks
    /\ WinWorkerRun(t, ok)

NextRead ==
    \/ \E index \in 0..NumReadImages : ReadBegin(MaxReadOps, index)
    \/ ReadResult
    \/ ReadItem
    \/ \E index \in 0..(NumReadImages - 1) : ReadNavigate(MaxReadOps, index)
    \/ \E zoomed \in BOOLEAN : ReadSetZoomed(MaxReadOps, zoomed)
    \/ ReadCancelAll(MaxReadOps)
    \/ \E image_files \in Folders : OpenFolder(MaxReadOps, image_files)
    \/ Shutdown(MaxReadOps)
    \/ \E t \in 1..(2 * NumReadImages * MaxReadOps) : ReadWorkerStart(t)
    \/ \E t \in 1..(2 * NumReadImages * MaxReadOps), ok \in BOOLEAN : ReadWorkerRun(t, ok)

SpecRead == InitRead /\ [][NextRead]_vars

(* C20: after shutdown all outstanding work has been cancelled, and every  *)
(* later submission, through update_prefetch or through the blocking read, *)
(* is a no-op: nothing is pending, the handle table stays empty and no     *)
(* call raises an exception.                                               *)
C20_SubmissionsAfterShutdownAreNoOps ==
    thr.shutdown =>
        /\ Pending = {}
        /\ DOMAIN pf.futures = {}
        /\ last.raised = "none"

(* C11: on a cache miss, whatever the outcome of the awaited task, the     *)
(* blocking read raises no exception; when it does not return the fresh    *)
(* entry it returns the last displayed entry (or nothing) and leaves the   *)
(* last displayed entry unchanged.                                         *)
C11_MissNeverRaises ==
    [][ (thr.pc \in {"l531", "l554"} /\ thr'.pc = "idle")
            => /\ last'.raised = "none"
               /\ last'.fallback =>
                     /\ last'.image = app.last_displayed_image
                     /\ app'.last_displayed_image = app.last_displayed_image ]_vars

\* a blocking read for a valid index has returned a value
ReadReturned ==
    /\ last.op = "get_decoded_image"
    /\ last.path \in {"hit", "miss"}
    /\ last.raised = "none"

(* C12: once some decode has succeeded (an entry is in the cache, or an    *)
(* earlier read returned one), every blocking read for a valid index       *)
(* returns a non-empty entry.                                              *)
C12_NeverEmptyAfterSuccess ==
    (ReadReturned /\ (cache.order # <<>> \/ hist # <<>>)) => last.image # NoImage

(* C12, as the code has it: once a blocking read has returned an entry and *)
(* no other folder was opened since, no blocking read for a valid index    *)
(* returns an empty result.                                                *)
C12_NeverEmptyWithinFolder ==
    (ReadReturned /\ hist = <<"returned">>) => last.image # NoImage

\* a read of another image fell back to the entry returned before cancel_all
C12_Witness ==
    /\ ReadReturned /\ hist = <<"returned">>
    /\ last.fallback
    /\ last.image # NoImage
    /\ last.image.src # pf.image_files[last.index + 1]
    /\ pf.generation > 0

(* C13: whenever the blocking read returns an entry that is not the        *)
(* last-displayed fallback, the entry is the one stored under the key of   *)
(* (source of the requested index, display generation live at the call);   *)
(* no entry keyed under a superseded generation or another source is       *)
(* returned as fresh or recorded as last displayed.                        *)
C13_FreshEntryUnderLiveKey ==
    (ReadReturned /\ ~last.fallback)
        => /\ last.key = last.req_key
           /\ last.req_key = build_cache_key(pf.image_files[last.index + 1],
                                             app.display_generation)
           /\ app.last_displayed_image = last.image

(* C21: across update, submit, cancel_all, set_image_files and shutdown    *)
(* the prefetcher's generation never decreases, and neither an update      *)
(* (navigation) nor a submit changes it.                                   *)
C21_GenerationNeverDecreases ==
    [][ /\ pf'.generation >= pf.generation
        /\ (\/ last'.op = "update_prefetch"
            \/ (thr.pc = "idle" /\ thr'.pc = "l531"))
               => pf'.generation = pf.generation ]_vars

\* an update dispatched tasks under a generation that cancel_all had bumped
C21_Witness ==
    /\ last.op = "update_prefetch"
    /\ last.submitted # <<>>
    /\ pf.generation > 0
    /\ \A i \in DOMAIN pf.futures : pf.tasks[pf.futures[i]].generation = pf.generation

----------------------------------------------------------------------------
(* SpecKeys: puts and gets on the cache under the keys build_cache_key     *)
(* makes.  A key is the string f"{path_str}::{display_generation}", here a *)
(* sequence of characters.  hist is the reference store: a map from        *)
(* (path, generation) pairs to the value last put under that pair and      *)
(* still resident.                                                         *)

MaxKeyGen == 1        \* largest display generation a key is built for
MaxKeyBytes == 2      \* largest value size put in SpecKeys

\* paths that themselves hold the separator and digits
KeyPaths == {<<"a">>, <<"a", ":", ":", "1">>, <<"a", ":", ":">>}
KeyPairs == KeyPaths \X (0..MaxKeyGen)

DigitChar(d) == <<"0", "1", "2", "3", "4", "5", "6", "7", "8", "9">>[d + 1]

\* str(display_generation)
RECURSIVE Digits(_)
Digits(g) ==
    IF g < 10 THEN <<DigitChar(g)>>
    ELSE Digits(g \div 10) \o <<DigitChar(g % 10)>>

FormatKey_nogen(path_str, display_generation) == path_str \o <<":", ":">>

\* build_cache_key: f"{path_str}::{display_generation}"
FormatKey(path_str, display_generation) ==
    path_str \o <<":", ":">> \o Digits(display_generation)

KeyOf(pair) == FormatKey(pair[1], pair[2])

InitKeys ==
    /\ InitCommon
    /\ pf = 0 /\ app = 0 /\ thr = 0

\* image_cache[build_cache_key(path, gen)] = value
KeyPut(pair, nbytes) ==
    LET value == [nbytes |-> nbytes]
        r == CachePut(cache, KeyOf(pair), value)
        gone == {q \in DOMAIN hist : KeyOf(q) \in SeqRange(r.evicted)}
        kept == DOMAIN hist \ gone
    IN
    /\ r.raised = "none"
    /\ cache' = r.c
    /\ hist' = [q \in kept \cup {pair} |-> IF q = pair THEN value ELSE hist[q]]
    /\ last' = [NoLast EXCEPT !.op = "put", !.key = KeyOf(pair), !.req_key = pair,
                              !.evicted = r.evicted]
    /\ UNCHANGED <<pf, app, thr>>

\* `key in image_cache` and image_cache[key], with key = build_cache_key(path, gen)
KeyGet(pair) ==
    LET hit == Contains(cache, KeyOf(pair)) IN
    /\ cache' = CacheGet(cache, KeyOf(pair))
    /\ last' = [NoLast EXCEPT !.op = "get", !.key = KeyOf(pair), !.req_key = pair,
                              !.ret = IF hit THEN 1 ELSE 0,
                              !.image = IF hit THEN cache.data[KeyOf(pair)] ELSE NoImage]
    /\ UNCHANGED <<pf, app, thr, hist>>

NextKeys ==
    \/ \E pair \in KeyPairs, nbytes \in 1..MaxKeyBytes : KeyPut(pair, nbytes)
    \/ \E pair \in KeyPairs : KeyGet(pair)

SpecKeys == InitKeys /\ [][NextKeys]_vars

(* C22: two cache keys are equal exactly when source and generation are    *)
(* both equal, so the entries under (source, g1) and (source, g2) are      *)
(* independent: the cache holds, for each pair, exactly the value last put *)
(* under that pair and not evicted since; a get hits only on such a pair   *)
(* and returns that value, and after an eviction it misses until a new put.*)
C22_KeysIndependent ==
    /\ \A p \in KeyPairs, q \in KeyPairs : (KeyOf(p) = KeyOf(q)) <=> (p = q)
    /\ DOMAIN cache.data = {KeyOf(p) : p \in DOMAIN hist}
    /\ \A p \in DOMAIN hist : cache.data[KeyOf(p)] = hist[p]
    /\ last.op = "get" =>
          /\ (last.ret = 1) <=> (last.req_key \in DOMAIN hist)
          /\ last.ret = 1 => last.image = hist[last.req_key]

\* a get under (source, 1) misses after its entry was evicted, while the
\* entry under (source, 0) is resident with another value's size
C22_Witness ==
    /\ last.op = "get" /\ last.ret = 0
    /\ last.req_key[2] = 1
    /\ <<last.req_key[1], 0>> \in DOMAIN hist
    /\ \E q \in DOMAIN hist : q[1] # last.req_key[1]

----------------------------------------------------------------------------
C25_ClearFiresNoObserver ==
    last.op = "clear" =>
        /\ cache.order = <<>> /\ DOMAIN cache.data = {}
        /\ cache.currsize = 0
        /\ on_evict_calls(last) = 0

\* the keys resident before an operation and not after it
Gone(before, after) == DOMAIN before.data \ DOMAIN after.data

(* C26: every entry removed by eviction during a put or a resize causes    *)
(* exactly one call of the eviction observer, and a put or get that evicts *)
(* nothing calls it not at all.  (A put of a larger value under a resident *)
(* key can evict that key's old entry before storing the new one.)         *)
C26_OneObserverCallPerEviction ==
    [][ last'.op \in {"put", "get", "resize"} =>
           LET ev == SeqRange(last'.evicted)
               own == IF last'.op = "put" /\ Contains(cache, last'.key)
                      THEN {last'.key} ELSE {}
           IN  /\ on_evict_calls(last') = Cardinality(ev)
               /\ Gone(cache, cache') \subseteq ev
               /\ ev \subseteq Gone(cache, cache') \cup own
               /\ last'.op = "get" => on_evict_calls(last') = 0
               /\ (last'.op = "put" /\ last'.raised # "none")
                     => on_evict_calls(last') = 0
               /\ (/\ last'.op = "put" /\ last'.raised = "none"
                   /\ cache.currsize + cache'.size[last'.key] <= cache.maxsize)
                     => on_evict_calls(last') = 0 ]_vars

\* a put evicted two entries, each reported once
C26_Witness ==
    /\ last.op = "put" /\ last.raised = "none"
    /\ on_evict_calls(last) = 2
    /\ last.evicted[1] # last.evicted[2]
    /\ Cardinality(DOMAIN cache.data) = 1

(* C27: size accounting under get and re-put is exact: a get that hits     *)
(* changes neither the total nor the set of resident keys, and a put under *)
(* a resident key changes the total by exactly new size - old size and     *)
(* removes no other entry whenever the resulting total is within the       *)
(* budget.                                                                 *)
C27_ExactAccountingOnReput ==
    [][ /\ (last'.op = "get" /\ last'.ret = 1)
              => /\ cache'.currsize = cache.currsize
                 /\ DOMAIN cache'.data = DOMAIN cache.data
        /\ (/\ last'.op = "put" /\ last'.raised = "none"
            /\ Contains(cache, last'.key)
            /\ cache.currsize - cache.size[last'.key] + cache'.size[last'.key]
                  <= cache.maxsize)
              => /\ cache'.currsize
                       = cache.currsize - cache.size[last'.key] + cache'.size[last'.key]
                 /\ DOMAIN cache'.data = DOMAIN cache.data ]_vars

----------------------------------------------------------------------------
(* C28: a decode failure is confined to its task: the worker returns       *)
(* nothing (the future finishes with no result and no exception), writes   *)
(* nothing to the cache, and leaves the cache, the handle table, the       *)
(* ScheduledSet and every other task exactly as they were.                 *)
C28_DecodeFailureConfined ==
    [][ \A t \in DOMAIN pf.tasks :
           (/\ pf.tasks[t].state = "l304" /\ ~StaleNow(t)
            /\ pf'.tasks[t].state = "FINISHED")
               => /\ pf'.tasks[t].result = NoResult
                  /\ cache' = cache
                  /\ pf'.futures = pf.futures
                  /\ pf'.scheduled = pf.scheduled
                  /\ pf'.generation = pf.generation
                  /\ Len(pf'.tasks) = Len(pf.tasks)
                  /\ \A u \in DOMAIN pf.tasks \ {t} : pf'.tasks[u] = pf.tasks[u] ]_vars

\* no generation was ever bumped, so the task that finished without a result
\* failed to decode; its handle is still in the table and another task's
\* entry is in the cache
C28_Witness ==
    /\ pf.generation = 0
    /\ cache.order # <<>>
    /\ \E t \in DOMAIN pf.tasks :
          /\ pf.tasks[t].state = "FINISHED" /\ pf.tasks[t].result = NoResult
          /\ \E i \in DOMAIN pf.futures : pf.futures[i] = t

----------------------------------------------------------------------------
(* SpecDisplay: the view parameters under two threads.  The GUI thread     *)
(* runs _handle_resize and set_zoomed one attribute write at a time; a     *)
(* background thread runs _get_decoded_image_safe's priority submit, whose *)
(* get_display_info reads the attributes one at a time.  thr holds both    *)
(* threads' frames and the number of calls made.  hist maps each display   *)
(* generation to the (width, height) get_display_info yields once that     *)
(* generation is current.                                                  *)

MaxDispOps == 3       \* calls (GUI handlers and background submits) in one run
MaxDispSize == 2      \* largest display size reported, in both directions

DispSizes == {<<n, n>> : n \in 1..MaxDispSize}

IdleThreads ==
    [ops |-> 0,
     gui |-> [pc |-> "idle", size |-> <<0, 0>>],
     bg |-> [pc |-> "idle", index |-> -1, generation |-> -1,
             zoomed |-> FALSE, w |-> 0, h |-> 0, g |-> -1]]

InitDisplay ==
    /\ cache = NewCache(InitialMaxBytes)
    /\ last = NoLast
    /\ app = NewApp
    /\ pf = NewPrefetcher(FolderA)
    /\ thr = IdleThreads
    /\ hist = (0 :> <<0, 0>>)

\* _handle_resize, line 293: self.display_width = self.pending_width
DispResizeWidth(max_ops, size) ==
    /\ thr.gui.pc = "idle" /\ thr.ops < max_ops
    /\ app' = [app EXCEPT !.display_width = size[1]]
    /\ thr' = [thr EXCEPT !.ops = @ + 1, !.gui = [pc |-> "l294", size |-> size]]
    /\ last' = NoLast
    /\ UNCHANGED <<cache, pf, hist>>

\* line 294: self.display_height = self.pending_height
DispResizeHeight ==
    /\ thr.gui.pc = "l294"
    /\ app' = [app EXCEPT !.display_height = thr.gui.size[2]]
    /\ thr' = [thr EXCEPT !.gui.pc = "l295"]
    /\ last' = NoLast
    /\ UNCHANGED <<cache, pf, hist>>

\* set_zoomed, lines 316-319: self.is_zoomed = zoomed
DispSetZoomed(max_ops, zoomed) ==
    /\ thr.gui.pc = "idle" /\ thr.ops < max_ops
    /\ app' = [app EXCEPT !.is_zoomed = zoomed]
    /\ thr' = [thr EXCEPT !.ops = @ + 1, !.gui.pc = "l322"]
    /\ last' = NoLast
    /\ UNCHANGED <<cache, pf, hist>>

\* lines 295 and 322: self.display_generation += 1
DispBump ==
    /\ thr.gui.pc \in {"l295", "l322"}
    /\ LET a1 == [app EXCEPT !.display_generation = @ + 1]
           dinfo == get_display_info(a1)
       IN  /\ app' = a1
           /\ hist' = [g \in DOMAIN hist \cup {dinfo[3]} |->
                          IF g = dinfo[3] THEN <<dinfo[1], dinfo[2]>> ELSE hist[g]]
    /\ thr' = [thr EXCEPT !.gui.pc = IF thr.gui.pc = "l295" THEN "l303" ELSE "idle"]
    /\ last' = NoLast
    /\ UNCHANGED <<cache, pf>>

\* _handle_resize, lines 303-310: cancel_all, update_prefetch(current_index)
DispResizeFinish ==
    /\ thr.gui.pc = "l303"
    /\ pf' = update_prefetch(cancel_all(pf), get_display_info(app), app.current_index,
                             FALSE, NoDirection).p
    /\ thr' = [thr EXCEPT !.gui.pc = "idle"]
    /\ last' = NoLast
    /\ UNCHANGED <<cache, app, hist>>

\* submit_task, lines 268-287: the cancellations of a priority submit
PriorityCancel(p, index) ==
    LET far == {i \in DOMAIN p.futures :
                   FarFrom(i, index) /\ ~FutureDone(p, p.futures[i])}
        gone == {i \in far : CancelSucceeds(p, p.futures[i])}
        p1 == CancelEach(p, {p.futures[i] : i \in far})
    IN  [p1 EXCEPT !.futures = Restrict(@, DOMAIN @ \ gone)]

\* _get_decoded_image_safe -> submit_task(index, generation, priority=True)
\* up to line 289; an unfinished handle for index is returned at once
BgSubmit(max_ops, index) ==
    /\ thr.bg.pc = "idle" /\ thr.ops < max_ops
    /\ index \in ValidIndices
    /\ IF AlreadySubmitted(pf, index)
       THEN /\ thr' = [thr EXCEPT !.ops = @ + 1]
            /\ UNCHANGED pf
       ELSE /\ pf' = PriorityCancel(pf, index)
            /\ thr' = [thr EXCEPT !.ops = @ + 1,
                                  !.bg = [IdleThreads.bg EXCEPT
                                             !.pc = "l273", !.index = index,
                                             !.generation = pf.generation]]
    /\ last' = NoLast
    /\ UNCHANGED <<cache, app, hist>>

\* get_display_info, line 273: if self.is_zoomed
BgReadZoomed ==
    /\ thr.bg.pc = "l273"
    /\ thr' = [thr EXCEPT !.bg.zoomed = app.is_zoomed,
                          !.bg.pc = IF app.is_zoomed THEN "l274" ELSE "l276"]
    /\ last' = NoLast
    /\ UNCHANGED <<cache, pf, app, hist>>

\* line 276: self.display_width, then self.display_height
BgReadSize ==
    /\ thr.bg.pc \in {"l276", "l276h"}
    /\ thr' = IF thr.bg.pc = "l276"
              THEN [thr EXCEPT !.bg.w = app.display_width, !.bg.pc = "l276h"]
              ELSE [thr EXCEPT !.bg.h = app.display_height, !.bg.pc = "l276g"]
    /\ last' = NoLast
    /\ UNCHANGED <<cache, pf, app, hist>>

\* lines 274 and 276: self.display_generation
BgReadGeneration ==
    /\ thr.bg.pc \in {"l274", "l276g"}
    /\ thr' = [thr EXCEPT !.bg.g = app.display_generation, !.bg.pc = "l292"]
    /\ last' = NoLast
    /\ UNCHANGED <<cache, pf, app, hist>>

\* submit_task, lines 292-295: executor.submit with the triple just read
BgDispatch ==
    /\ thr.bg.pc = "l292"
    /\ pf' = Dispatch(pf, <<thr.bg.w, thr.bg.h, thr.bg.g>>, thr.bg.index,
                      thr.bg.generation)
    /\ thr' = [thr EXCEPT !.bg = IdleThreads.bg]
    /\ last' = [NoLast EXCEPT !.op = "submit_task", !.index = thr.bg.index,
                              !.priority = TRUE, !.dispatched = Len(pf.tasks) + 1]
    /\ UNCHANGED <<cache, app, hist>>

NextDisplay ==
    \/ \E size \in DispSizes : DispResizeWidth(MaxDispOps, size)
    \/ DispResizeHeight
    \/ \E zoomed \in BOOLEAN : DispSetZoomed(MaxDispOps, zoomed)
    \/ DispBump
    \/ DispResizeFinish
    \/ \E index \in 0..(NumReadImages - 1) : BgSubmit(MaxDispOps, index)
    \/ BgReadZoomed
    \/ BgReadSize
    \/ BgReadGeneration
    \/ BgDispatch

SpecDisplay == InitDisplay /\ [][NextDisplay]_vars

(* C29: every (width, height, generation) triple captured for a task at    *)
(* submission was simultaneously current: the width and height a task      *)
(* carries are those that belong to the display generation it carries,     *)
(* also when a resize or zoom change runs while another thread submits.    *)
C29_CapturedTripleConsistent ==
    \A t \in DOMAIN pf.tasks :
        pf.tasks[t].display_generation \in DOMAIN hist
            => <<pf.tasks[t].display_width, pf.tasks[t].display_height>>
                   = hist[pf.tasks[t].display_generation]

----------------------------------------------------------------------------
(* C30: a failed task is attempted once only.  No worker step dispatches   *)
(* anything; while the generation stands, the handle of a task that        *)
(* finished without a result is replaced only by a submit for its index;   *)
(* and that submit dispatches a new pending task for the index instead of  *)
(* returning the completed handle.                                         *)
C30_FailedTaskNotRetried ==
    [][ /\ Workers => /\ Len(pf'.tasks) = Len(pf.tasks)
                      /\ pf'.futures = pf.futures
        /\ \A i \in DOMAIN pf.futures :
              LET t == pf.futures[i]
                  new == Len(pf.tasks) + 1
              IN  (pf.tasks[t].state = "FINISHED" /\ pf.tasks[t].result = NoResult)
                     => /\ (/\ pf'.generation = pf.generation
                            /\ i \in DOMAIN pf'.futures /\ pf'.futures[i] # t)
                              => (last'.op = "submit_task" /\ last'.index = i)
                        /\ (last'.op = "submit_task" /\ last'.index = i)
                              => /\ Len(pf'.tasks) = new
                                 /\ pf'.futures[i] = new
                                 /\ last'.ret = new /\ last'.dispatched = new
                                 /\ pf'.tasks[new].state = "PENDING"
                                 /\ pf'.tasks[new].index = i ]_vars

\* no generation was bumped; the first task, for the only index in the
\* handle table, failed, and a submit for that index dispatched a second
C30_Witness ==
    /\ pf.generation = 0
    /\ last.op = "submit_task" /\ last.dispatched = 2
    /\ DOMAIN pf.futures = {last.index}
    /\ pf.tasks[1].state = "FINISHED" /\ pf.tasks[1].result = NoResult
    /\ pf.tasks[2].state = "PENDING" /\ pf.tasks[2].index = last.index

----------------------------------------------------------------------------
(* SpecFocus: update_prefetch called with any focus, also one that lies    *)
(* outside the list, over a list that may be empty.  The caller does not   *)
(* clamp; thr counts the coordinator's calls.                              *)

MaxFocusOps == 2      \* coordinator calls in one run of SpecFocus
FocusSlack == 3       \* how far outside [0, length) a focus may lie

FocusLists == {<<>>, WinShortList}

InitFocus ==
    /\ InitCommon
    /\ app = NewApp
    /\ thr = 0
    /\ \E radius \in 1..MaxRadius, image_files \in FocusLists :
           pf = [NewPrefetcher(image_files) EXCEPT !.prefetch_radius = radius]

\* Prefetcher.update_prefetch with an unclamped current_index
FocusUpdate(max_ops, current_index, mode) ==
    LET r == update_prefetch(pf, get_display_info(app), current_index, mode[1], mode[2]) IN
    /\ thr < max_ops
    /\ thr' = thr + 1
    /\ pf' = r.p
    /\ last' = [NoLast EXCEPT !.op = "update_prefetch", !.index = current_index,
                              !.is_navigation = mode[1], !.submitted = r.submitted,
                              !.start = WindowStart(r.p, current_index),
                              !.end = WindowEnd(r.p, current_index)]
    /\ UNCHANGED <<cache, app, hist>>

NextFocus ==
    \/ \E i \in (0 - FocusSlack)..(NumWinImages + FocusSlack), mode \in UpdateModes :
           FocusUpdate(MaxFocusOps, i, mode)
    \/ WinCancelAll(MaxFocusOps)
    \/ \E image_files \in FocusLists : WinSetImageFiles(MaxFocusOps, image_files)

SpecFocus == InitFocus /\ [][NextFocus]_vars

(* C31: the scheduler clamps only the window endpoints.  For every focus,  *)
(* also one outside [0, length), the window computed by update lies within *)
(* [0, length], every index update submitted lies in [0, length) and in    *)
(* the window, and every handle and task is for an index of the list; for  *)
(* an empty list the window is empty and nothing is submitted.             *)
C31_OnlyEndpointsClamped ==
    last.op = "update_prefetch" =>
        /\ last.start >= 0 /\ last.end <= Len(pf.image_files)
        /\ \A j \in 1..Len(last.submitted) :
              /\ last.submitted[j] \in 0..(Len(pf.image_files) - 1)
              /\ last.start <= last.submitted[j] /\ last.submitted[j] < last.end
        /\ DOMAIN pf.futures \subseteq 0..(Len(pf.image_files) - 1)
        /\ \A t \in DOMAIN pf.tasks :
              pf.tasks[t].state = "PENDING" =>
                  pf.tasks[t].path = pf.image_files[pf.tasks[t].index + 1]
        /\ pf.image_files = <<>> =>
              (last.submitted = <<>> /\ last.end <= last.start /\ DOMAIN pf.futures = {})

\* a focus one past the end of a non-empty list, travelling backward: the
\* indices below it were submitted, the focus itself was not
C31_Witness ==
    /\ last.op = "update_prefetch"
    /\ pf.image_files # <<>>
    /\ last.index = Len(pf.image_files)
    /\ pf.last_navigation_direction < 0
    /\ last.submitted = <<last.index - 1, last.index - 2>>

----------------------------------------------------------------------------
----------------------------------------------------------------------------
(* C33: after update returns, the scheduled map holds a set for the live   *)
(* generation and for no other, and every index this update submitted is   *)
(* in the live generation's set.                                           *)
C33_ScheduledOnlyLiveGeneration ==
    last.op = "update_prefetch" =>
        /\ DOMAIN pf.scheduled = {pf.generation}
        /\ \A j \in 1..Len(last.submitted) :
              last.submitted[j] \in pf.scheduled[pf.generation]

\* an update after a generation bump that dispatched several tasks
C33_Witness ==
    /\ last.op = "update_prefetch"
    /\ pf.generation > 0
    /\ Len(last.submitted) >= 3
    /\ pf.scheduled[pf.generation] = SeqRange(last.submitted)
    /\ \E t \in DOMAIN pf.tasks : pf.tasks[t].state = "CANCELLED"

----------------------------------------------------------------------------
(* C34: update never submits an index that was in the live generation's    *)
(* scheduled set or had a handle when it was called; an update with        *)
(* is_navigation false that directly repeats an update with the same focus *)
(* submits nothing, cancels nothing and leaves the scheduler as it was.    *)
C34_NoRedispatch ==
    [][ last'.op = "update_prefetch" =>
          /\ \A j \in 1..Len(last'.submitted) :
                /\ last'.submitted[j] \notin DOMAIN pf.futures
                /\ last'.submitted[j] \notin ScheduledNow(pf)
          /\ (/\ last.op = "update_prefetch"
              /\ last'.index = last.index
              /\ ~last'.is_navigation)
                => /\ last'.submitted = <<>>
                   /\ pf' = pf ]_vars

\* two updates at one focus and nothing else: the second found the whole
\* window dispatched by the first and submitted nothing
C34_Witness ==
    /\ last.op = "update_prefetch" /\ ~last.is_navigation
    /\ thr = 2 /\ pf.generation = 0 /\ pf.navigation_count = 0
    /\ last.submitted = <<>>
    /\ Len(pf.tasks) = last.end - last.start
    /\ Len(pf.tasks) >= 3
    /\ DOMAIN pf.futures = last.start..(last.end - 1)
    /\ \A t \in DOMAIN pf.tasks : pf.tasks[t].state # "CANCELLED"

----------------------------------------------------------------------------
(* C35: the worker writes before it signals completion.  A handle          *)
(* completes with a result only from the return statement, and the result  *)
(* names the task's own (path, display generation); a worker reaches the   *)
(* return statement only by the step that stored its decoded image under    *)
(* exactly that key; and a key leaves the cache only by a put's eviction   *)
(* or by the clear in a colour-mode change.                                *)
C35_WriteBeforeCompletion ==
    [][ /\ \A t \in DOMAIN pf.tasks :
              LET task == pf.tasks[t]
                  key == build_cache_key(task.path, task.display_generation)
              IN  /\ (/\ task.state # "FINISHED"
                      /\ pf'.tasks[t].state = "FINISHED"
                      /\ pf'.tasks[t].result # NoResult)
                        => /\ task.state = "l517"
                           /\ pf'.tasks[t].result = <<task.path, task.display_generation>>
                  /\ (task.state # "l517" /\ pf'.tasks[t].state = "l517")
                        => /\ task.state = "l515"
                           /\ Contains(cache', key)
                           /\ cache'.data[key] = DecodedImage(task)
        /\ (DOMAIN cache.data \ DOMAIN cache'.data # {})
              => (SetColorMode \/ \E t \in 1..MaxTasks : WorkerCachePut(t)) ]_vars

\* one handle completed with a result whose key is resident, another
\* completed with a result whose key has been evicted since
C35_Witness ==
    \E t, u \in DOMAIN pf.tasks :
        /\ pf.tasks[t].state = "FINISHED" /\ pf.tasks[t].result # NoResult
        /\ Contains(cache, build_cache_key(pf.tasks[t].result[1], pf.tasks[t].result[2]))
        /\ pf.tasks[u].state = "FINISHED" /\ pf.tasks[u].result # NoResult
        /\ ~Contains(cache, build_cache_key(pf.tasks[u].result[1], pf.tasks[u].result[2]))

----------------------------------------------------------------------------
(* C36: each discrete change of a decode-affecting view parameter (an      *)
(* applied resize, a change of the zoom state, a change of the colour      *)
(* mode) raises the display generation by exactly one, and a request that  *)
(* changes no parameter, such as set_zoomed with the current zoom state,   *)
(* leaves it as it is; no other step changes it.                           *)
C36_OneBumpPerChange ==
    [][ /\ (\E size \in DisplaySizes : HandleResize(size))
              => app'.display_generation = app.display_generation + 1
        /\ SetColorMode => app'.display_generation = app.display_generation + 1
        /\ (\E zoomed \in BOOLEAN : SetZoomed(zoomed))
              => app'.display_generation =
                    app.display_generation + (IF app'.is_zoomed # app.is_zoomed THEN 1 ELSE 0)
        /\ (app'.display_generation # app.display_generation)
              => \/ \E size \in DisplaySizes : HandleResize(size)
                 \/ \E zoomed \in BOOLEAN : SetZoomed(zoomed)
                 \/ SetColorMode ]_vars

----------------------------------------------------------------------------
(* SpecObserver: the serial cache with an eviction observer that may       *)
(* raise.  popitem calls self.on_evict() after the victim has left the     *)
(* cache and with no handler around the call, so the exception leaves      *)
(* popitem, the eviction loop and __setitem__ before the new value is      *)
(* stored.                                                                 *)

\* __setitem__(key, value) during which on_evict raises at its first call
PutObserverRaises(key, nbytes) ==
    LET size == get_decoded_image_size([nbytes |-> nbytes]) IN
    /\ size <= cache.maxsize
    /\ cache.currsize + size > cache.maxsize
    /\ IF Contains(cache, key) THEN cache.size[key] < size ELSE TRUE
    /\ cache' = popitem(cache)
    /\ last' = [NoLast EXCEPT !.op = "put_on_evict_raises", !.key = key,
                              !.evicted = <<LRUVictim(cache)>>,
                              !.raised = "RuntimeError"]
    /\ UNCHANGED <<pf, app, thr, hist>>

NextObserver ==
    \/ \E key \in CacheKeys, nbytes \in 1..MaxItemBytes : Put(key, nbytes)
    \/ \E key \in CacheKeys : Get(key)
    \/ \E key \in CacheKeys, nbytes \in 1..MaxItemBytes : PutObserverRaises(key, nbytes)

SpecObserver == InitCache /\ [][NextObserver]_vars

(* C37: a failure of the eviction observer is never propagated: when the   *)
(* observer raises while a put is evicting, the put returns normally, the  *)
(* new entry is stored, and the total stays within the budget.             *)
C37_ObserverFailureContained ==
    last.op = "put_on_evict_raises" =>
        /\ last.raised = "none"
        /\ Contains(cache, last.key)
        /\ cache.currsize <= cache.maxsize
        /\ cache.currsize = SumSizes(cache.size, DOMAIN cache.data)

----------------------------------------------------------------------------
(* C38: no cache write by a worker takes effect while the live generation  *)
(* differs from the generation the worker captured: once cancel_all has    *)
(* returned, no task submitted before it performs a cache write.           *)
C38_NoWriteAfterCancelAll ==
    [][ \A t \in DOMAIN pf.tasks :
           (pf.tasks[t].state = "l515" /\ pf'.tasks[t].state = "l517")
              => pf.tasks[t].generation = pf.generation ]_vars

----------------------------------------------------------------------------
(* C39: update keeps the window warm: after update(focus) returns, every   *)
(* index of the window has an entry in the cache under the live display    *)
(* generation or a handle that has not completed, also when its earlier    *)
(* task failed or was cancelled or its entry has been evicted.             *)
C39_WindowKeptWarm ==
    last.op = "update_prefetch" =>
        \A i \in last.start..(last.end - 1) :
            \/ Contains(cache, build_cache_key(pf.image_files[i + 1],
                                               app.display_generation))
            \/ /\ i \in DOMAIN pf.futures
               /\ ~FutureDone(pf, pf.futures[i])

----------------------------------------------------------------------------
(* C40: the startup radius is a reduction: for every configured radius,    *)
(* the effective radius update uses before the radius has expanded does    *)
(* not exceed the configured radius, so update never schedules more        *)
(* indices on either side of the focus than the configured radius allows.  *)
C40_StartupRadiusIsReduction ==
    last.op = "update_prefetch" =>
        /\ EffectiveRadius(pf) <= pf.prefetch_radius
        /\ last.index - last.start <= pf.prefetch_radius
        /\ last.end - 1 - last.index <= pf.prefetch_radius
        /\ \A j \in 1..Len(last.submitted) :
              Abs(last.submitted[j] - last.index) <= pf.prefetch_radius

====
